---- MODULE Spec2Model ----
(***************************************************************************)
(* Model of the multi-threaded image emission of src/aotcompile.cpp:       *)
(* partitionModule (union-find + greedy assignment), materializePreserved, *)
(* construct_vars, add_output and compute_image_thread_count.              *)
(*                                                                         *)
(* A module M is a sequence of global values in the order of               *)
(* M.global_values(): functions, then global variables, then aliases.     *)
(* A global value is named by its position (names are unique in a module). *)
(* Arrays of the code that are indexed from 0 (nodes, partitions, idxs,    *)
(* the heap of the priority queue, flat ids) are functions on 0..n-1.      *)
(***************************************************************************)
EXTENDS Integers, Sequences, FiniteSets, TLC

\* ------------------------------------------------------------------ bounds
MaxSyms == 3
MaxThreads == 3
MaxWorkers == 2
MaxRefs == 2
MaxUses == 1
MaxEdges == 1
MaxFuncs == 5
MaxRaise == 2
MaxInsts == 3

\* ------------------------------------------------------- global values
Max(a, b) == IF a >= b THEN a ELSE b
Min(a, b) == IF a <= b THEN a ELSE b

SetMax(S) == CHOOSE x \in S : \A y \in S : x >= y
SetMin(S) == CHOOSE x \in S : \A y \in S : x <= y

MapPut(f, k, v) == [x \in (DOMAIN f) \cup {k} |-> IF x = k THEN v ELSE f[x]]

\* 0-based array of a sequence
Arr(s) == [k \in 0..(Len(s) - 1) |-> s[k + 1]]
ALen(a) == Cardinality(DOMAIN a)

\* GlobalValue::isDeclaration(): a function without body, a variable without
\* initializer; an alias is never a declaration.
isDeclaration(G) == G.decl

\* GlobalValue::hasLocalLinkage(): internal or private linkage
hasLocalLinkage(G) == G.linkage = "internal"

\* countPopulation of one hex digit
PopDigit(d) == (d % 2) + ((d \div 2) % 2) + ((d \div 4) % 2) + ((d \div 8) % 2)

RECURSIVE countPopulation(_)
countPopulation(hex) ==
    IF hex = <<>> THEN 0 ELSE PopDigit(Head(hex)) + countPopulation(Tail(hex))

getFunctionWeightBug(F) ==
    LET clones == IF F.mvclones THEN countPopulation(F.clones) + 1 ELSE 1
    IN  [weight |-> 1 + F.insts + F.bbs + clones, bbs |-> F.bbs, insts |-> F.insts,
         clones |-> clones]

getFunctionWeight(F) ==
    LET clones == IF F.mvclones THEN countPopulation(F.clones) + 1 ELSE 1
    IN  [weight |-> (1 + F.insts + F.bbs) * clones, bbs |-> F.bbs, insts |-> F.insts,
         clones |-> clones]

canPartition(G) == ~(G.kind = "Function" /\ G.alwaysinline)

\* ------------------------------------------------------------ input modules
\* The shapes of global value the input module is built from.
FnDef(insts, bbs, hex) ==
    [kind |-> "Function", name |-> <<>>, fnty |-> TRUE, decl |-> FALSE, lazy |-> FALSE,
     alwaysinline |-> FALSE,
     linkage |-> "external", visibility |-> "default", dsolocal |-> FALSE,
     insts |-> insts, bbs |-> bbs, mvclones |-> hex # <<>>, clones |-> hex,
     operands |-> {}, uses |-> {}]
FnDecl == [FnDef(0, 0, <<>>) EXCEPT !.decl = TRUE]
FnInline(linkage) ==
    [FnDef(1, 1, <<>>) EXCEPT !.alwaysinline = TRUE, !.linkage = linkage]
GvDef == [FnDef(0, 0, <<>>) EXCEPT !.kind = "GlobalVariable", !.fnty = FALSE]
GvDecl == [GvDef EXCEPT !.decl = TRUE]
GaDef == [FnDef(0, 0, <<>>) EXCEPT !.kind = "GlobalAlias"]

FunctionShapes ==
    {FnDef(1, 1, <<>>), FnDecl, FnInline("internal"), FnInline("external")}
VariableShapes == {GvDef, GvDecl}
AliasShapes == {GaDef}
WeightShapes == {FnDef(1, 1, <<>>), FnDef(2, 1, <<>>), FnDef(1, 1, <<2>>)}

KindRank(G) ==
    CASE G.kind = "Function" -> 0
      [] G.kind = "GlobalVariable" -> 1
      [] OTHER -> 2

\* M.global_values() lists the functions, then the variables, then the aliases
ShapeSeqs(n) ==
    {s \in [1..n -> FunctionShapes \cup VariableShapes \cup AliasShapes] :
        \A a, b \in 1..n : a < b => KindRank(s[a]) <= KindRank(s[b])}

RECURSIVE SubsetsUpTo(_, _)
SubsetsUpTo(S, k) ==
    IF k = 0 THEN {{}}
    ELSE LET R == SubsetsUpTo(S, k - 1)
         IN  R \cup {E \cup {x} : E \in R, x \in S}

\* Constant operands (initializers, prefix data): only a value that can be
\* partitioned holds one, the precondition stated at line 853 of partitionModule.
RefPairs(s) ==
    {p \in (DOMAIN s) \X (DOMAIN s) :
        /\ p[1] # p[2]
        /\ ~s[p[1]].decl
        /\ s[p[1]].kind # "GlobalAlias"
        /\ canPartition(s[p[1]])}

\* Operands of the instructions of a function body
UsePairs(s) ==
    {p \in (DOMAIN s) \X (DOMAIN s) :
        /\ p[1] # p[2]
        /\ ~s[p[1]].decl
        /\ s[p[1]].kind = "Function"}

Aliases(s) == {a \in DOMAIN s : s[a].kind = "GlobalAlias"}

\* An aliasee is a definition; alias chains are allowed, cycles are not
Aliasees(s) ==
    {f \in [Aliases(s) -> DOMAIN s] :
        \A a \in Aliases(s) :
            /\ ~s[f[a]].decl
            /\ (s[f[a]].kind = "GlobalAlias" => f[a] < a)}

\* the object an alias stands for, through a chain of aliases
RECURSIVE BaseObject(_, _, _)
BaseObject(s, al, g) == IF g \in Aliases(s) THEN BaseObject(s, al, al[g]) ELSE g

\* the name of the global value at position g of the input module
NameOf(g) == <<"g", g>>

WithEdges(s, refs, uses, al) ==
    [g \in DOMAIN s |->
        [s[g] EXCEPT
            !.name = NameOf(g),
            !.fnty = s[BaseObject(s, al, g)].kind = "Function",
            !.operands = IF g \in Aliases(s) THEN {al[g]}
                         ELSE {p[2] : p \in {q \in refs : q[1] = g}},
            !.uses = {p[2] : p \in {q \in uses : q[1] = g}}]]

Named(s) == [g \in DOMAIN s |-> [s[g] EXCEPT !.name = NameOf(g)]]

RECURSIVE SelectIds(_, _, _)
SelectIds(gvs, k, kind) ==
    IF k > Len(gvs) THEN <<>>
    ELSE (IF gvs[k].kind = kind /\ ~gvs[k].decl /\ canPartition(gvs[k])
          THEN <<k>> ELSE <<>>) \o SelectIds(gvs, k + 1, kind)

RECURSIVE Reverse(_)
Reverse(s) == IF s = <<>> THEN <<>> ELSE Reverse(Tail(s)) \o <<Head(s)>>

\* jl_fvars and jl_gvars list named definitions, each once
TableOf(gvs, kind, order) ==
    LET all == SelectIds(gvs, 1, kind)
    IN  IF order = "rev" THEN Reverse(all)
        ELSE IF all = <<>> THEN <<>> ELSE Tail(all)

MakeModule(gvs, order) ==
    [gvs |-> gvs,
     tables |-> TRUE,
     jl_fvars |-> TableOf(gvs, "Function", order),
     jl_gvars |-> TableOf(gvs, "GlobalVariable", order),
     jl_fvar_idxs |-> [k \in 1..Len(TableOf(gvs, "Function", order)) |-> k - 1],
     jl_gvar_idxs |-> [k \in 1..Len(TableOf(gvs, "GlobalVariable", order)) |-> k - 1],
     suffix |-> <<"_", 0>>,
     difile |-> <<"julia">>]

GraphModules ==
    UNION {UNION {
        {MakeModule(WithEdges(s, refs, uses, al), order) :
            refs \in SubsetsUpTo(RefPairs(s), MaxRefs),
            uses \in SubsetsUpTo(UsePairs(s), MaxUses),
            al \in Aliasees(s),
            order \in {"rev"}} :
        s \in ShapeSeqs(n)} : n \in 1..MaxSyms}

\* Unconnected functions of several weights: the inputs of the balancing
WeightModules ==
    UNION {{MakeModule(Named(s), order) : s \in [1..n -> WeightShapes], order \in {"rev", "tail"}} :
           n \in 1..MaxFuncs}

\* ------------------------------------------------------------------- state
VARIABLES
    timers,      \* timers[i]: the timers of shard i that have run, in their order
    tc,          \* compute_image_thread_count: its inputs and what it returned
    dump,        \* jl_dump_native_impl: its inputs, its position, what it has written
    ext,         \* get_fvars_gvars: the build, the table symbols, what it returned
    impl,        \* add_output_impl: the outputs asked for; of worker t the local out,
                 \* whether the optimizer has run, the errors printed
    entry,       \* the function under examination: "add_output" or "partitionModule"
    pc,          \* position in add_output / partitionModule
    M0,          \* the module as handed in (never changed)
    M,           \* the module, as changed by partitionModule, freed by module_released
    threads,     \* the parameter threads
    fvars,       \* get_fvars_gvars: global value -> flat id, from jl_fvars
    gvars,       \* get_fvars_gvars: global value -> flat id, from jl_gvars
    nodes,       \* Partitioner::nodes
    i,           \* the loop variable of the merge loop (line 849)
    idxs,        \* node indices, sorted by weight (line 870)
    idx,         \* the loop variable of the assignment loop (line 879)
    partitions,  \* SmallVector<Partition> partitions(threads)
    pq,          \* the heap of the priority queue of partitions
    failed,      \* the lines of the assertions that did not hold
    serialized,  \* the buffer of serializeModule
    released,    \* the number of calls of module_released
    spawned,     \* the loop variable of the loop that starts the workers
    joined,      \* the number of workers joined
    wpc,         \* worker t: its position in the thread body
    WM,          \* worker t: its module, in its own context
    DeletedAliases, \* worker t: the local DeletedAliases of materializePreserved
    outputs      \* SmallVector<AOTOutputs> outputs(threads)

pvars == <<fvars, gvars, nodes, i, idxs, idx, partitions, pq>>
ovars == <<serialized, released, spawned, joined>>
wvars == <<wpc, WM, DeletedAliases, outputs>>

\* ------------------------------------------------------------ get_fvars_gvars
\* fvars[gv] = i for the i-th operand of the initializer of the table
TableMap(table) ==
    [gv \in {table[k] : k \in 1..Len(table)} |->
        (CHOOSE k \in 1..Len(table) : table[k] = gv) - 1]

\* ---------------------------------------------------------------- Partitioner
EmptyArr == [k \in {} |-> 0]
PushBack(a, x) == [k \in 0..ALen(a) |-> IF k < ALen(a) THEN a[k] ELSE x]
PopBack(a) == [k \in 0..(ALen(a) - 2) |-> a[k]]

\* Partitioner::make
make(ns, GV, weight) ==
    PushBack(ns, [GV |-> GV, parent |-> ALen(ns), size |-> 1, weight |-> weight])

\* node_map
node_map(ns) ==
    [gv \in {ns[k].GV : k \in DOMAIN ns} |-> CHOOSE k \in DOMAIN ns : ns[k].GV = gv]

\* Partitioner::find, with its path halving
RECURSIVE find(_, _)
find(ns, x) ==
    IF ns[x].parent = x THEN [nodes |-> ns, idx |-> x]
    ELSE LET halved == [ns EXCEPT ![x].parent = ns[ns[x].parent].parent]
         IN  find(halved, halved[x].parent)

mergeNoWeight(ns, x0, y0) ==
    LET fx == find(ns, x0)
        fy == find(fx.nodes, y0)
        n2 == fy.nodes
        swap == n2[fx.idx].size < n2[fy.idx].size
        x == IF swap THEN fy.idx ELSE fx.idx
        y == IF swap THEN fx.idx ELSE fy.idx
    IN  IF fx.idx = fy.idx THEN n2
        ELSE [n2 EXCEPT ![y].parent = x, ![x].size = @ + n2[y].size]

\* Partitioner::merge
merge(ns, x0, y0) ==
    LET fx == find(ns, x0)
        fy == find(fx.nodes, y0)
        n2 == fy.nodes
        swap == n2[fx.idx].size < n2[fy.idx].size
        x == IF swap THEN fy.idx ELSE fx.idx
        y == IF swap THEN fx.idx ELSE fy.idx
    IN  IF fx.idx = fy.idx THEN n2
        ELSE [n2 EXCEPT ![y].parent = x,
                        ![x].size = @ + n2[y].size,
                        ![x].weight = @ + n2[y].weight]

RECURSIVE MakeAllBug(_, _, _)
MakeAllBug(gvs, k, ns) ==
    IF k > Len(gvs) THEN ns
    ELSE IF ~canPartition(gvs[k]) THEN MakeAllBug(gvs, k + 1, ns)
    ELSE MakeAllBug(gvs, k + 1,
            make(ns, k, IF gvs[k].kind = "Function"
                        THEN getFunctionWeight(gvs[k]).weight ELSE 1))

\* The nodes made by the loop at line 834, for the global values from k on
RECURSIVE MakeAll(_, _, _)
MakeAll(gvs, k, ns) ==
    IF k > Len(gvs) THEN ns
    ELSE IF isDeclaration(gvs[k]) \/ ~canPartition(gvs[k]) THEN MakeAll(gvs, k + 1, ns)
    ELSE MakeAll(gvs, k + 1,
            make(ns, k, IF gvs[k].kind = "Function"
                        THEN getFunctionWeight(gvs[k]).weight ELSE 1))

\* Lines 839-840: every value that gets a node becomes external and hidden
Externalize(gvs) ==
    [g \in DOMAIN gvs |->
        IF isDeclaration(gvs[g]) \/ ~canPartition(gvs[g]) THEN gvs[g]
        ELSE [gvs[g] EXCEPT !.linkage = "external", !.visibility = "hidden"]]

RECURSIVE SetToSeq(_)
SetToSeq(S) ==
    IF S = {} THEN <<>>
    ELSE LET m == CHOOSE x \in S : \A y \in S : x <= y
         IN  <<m>> \o SetToSeq(S \ {m})

\* ConstantUses<GlobalValue>(GV, M): the global values that hold GV as a
\* constant operand, in the order of the use list
ConstantUses(GV, gvs) == SetToSeq({u \in DOMAIN gvs : GV \in gvs[u].operands})

MergeUsersBug(ns, n, users) ==
    IF users = <<>> THEN ns ELSE merge(ns, n, node_map(ns)[Head(users)])

\* The inner loop at line 850 for node n: merge n with every user
RECURSIVE MergeUsers(_, _, _)
MergeUsers(ns, n, users) ==
    IF users = <<>> THEN ns
    ELSE MergeUsers(merge(ns, n, node_map(ns)[Head(users)]), n, Tail(users))

\* ------------------------------------------------- the priority queue (heap)
EmptyPartition == [globals |-> EmptyArr, fvars |-> EmptyArr, gvars |-> EmptyArr, weight |-> 0]

pcompFlipped(parts, p1, p2) == parts[p1].weight < parts[p2].weight

\* pcomp: the smallest partition first
pcomp(parts, p1, p2) == parts[p1].weight > parts[p2].weight

\* std::push_heap: sift the value up from the hole
RECURSIVE PushHeap(_, _, _, _)
PushHeap(h, hole, value, parts) ==
    LET parent == (hole - 1) \div 2
    IN  IF hole > 0 /\ pcomp(parts, h[parent], value)
        THEN PushHeap([h EXCEPT ![hole] = h[parent]], parent, value, parts)
        ELSE [h EXCEPT ![hole] = value]

\* pq.push(P)
PqPush(h, P, parts) == PushHeap(PushBack(h, P), ALen(h), P, parts)

\* std::__adjust_heap: move the hole down to a leaf along the smaller children
RECURSIVE AdjustHeap(_, _, _, _, _)
AdjustHeap(h, hole, len, value, parts) ==
    IF hole < (len - 1) \div 2
    THEN LET right == 2 * (hole + 1)
             child == IF pcomp(parts, h[right], h[right - 1]) THEN right - 1 ELSE right
         IN  AdjustHeap([h EXCEPT ![hole] = h[child]], child, len, value, parts)
    ELSE IF len % 2 = 0 /\ len >= 2 /\ hole = (len - 2) \div 2
    THEN LET child == 2 * (hole + 1) - 1
         IN  PushHeap([h EXCEPT ![hole] = h[child]], child, value, parts)
    ELSE PushHeap(h, hole, value, parts)

PqTopBug(h) == h[ALen(h) - 1]

\* pq.top()
PqTop(h) == h[0]

\* pq.pop(): std::pop_heap, then pop_back
PqPop(h, parts) ==
    LET n == ALen(h)
    IN  IF n <= 1 THEN PopBack(h)
        ELSE PopBack(AdjustHeap([h EXCEPT ![n - 1] = h[0]], 0, n - 1, h[n - 1], parts))

\* lines 866-868
RECURSIVE PqInit(_, _, _)
PqInit(h, k, parts) ==
    IF k >= ALen(parts) THEN h ELSE PqInit(PqPush(h, k, parts), k + 1, parts)

\* ------------------------------------------------------------ sorting idxs
SortByIndex(ns, S) == SetToSeq(S)

RECURSIVE SortByWeightBug(_, _)
SortByWeightBug(ns, S) ==
    IF S = {} THEN <<>>
    ELSE LET m == CHOOSE x \in S :
                    \A y \in S : ns[x].weight < ns[y].weight
                                 \/ (ns[x].weight = ns[y].weight /\ x <= y)
         IN  <<m>> \o SortByWeightBug(ns, S \ {m})

\* std::sort with the comparator of line 872; nodes of equal weight keep the
\* order of their indices (the insertion sort std::sort runs on short ranges)
RECURSIVE SortByWeight(_, _)
SortByWeight(ns, S) ==
    IF S = {} THEN <<>>
    ELSE LET m == CHOOSE x \in S :
                    \A y \in S : ns[x].weight > ns[y].weight
                                 \/ (ns[x].weight = ns[y].weight /\ x <= y)
         IN  <<m>> \o SortByWeight(ns, S \ {m})

AddGlobalBug(P, GV, name, fv, gv) ==
    [P EXCEPT !.globals = MapPut(@, name, TRUE),
              !.fvars = IF GV \in DOMAIN fv THEN MapPut(@, name, fv[GV]) ELSE @,
              !.gvars = IF GV \in DOMAIN gv THEN MapPut(@, name, Cardinality(DOMAIN @)) ELSE @]

\* Lines 887-892 and 904-909: enter the global value of a node, with its name,
\* into partition P
AddGlobal(P, GV, name, fv, gv) ==
    [P EXCEPT !.globals = MapPut(@, name, TRUE),
              !.fvars = IF GV \in DOMAIN fv THEN MapPut(@, name, fv[GV]) ELSE @,
              !.gvars = IF GV \in DOMAIN gv THEN MapPut(@, name, gv[GV]) ELSE @]

\* ------------------------------------------------------------ serializeModule
\* The bitcode of the whole module, symbol table included
serializeModule(Mod) == [bitcode |-> Mod]

\* module_released(M), the callback of line 1663: delete data. The module is
\* destroyed; M is a reference to memory that was freed
module_released(Mod) ==
    [gvs |-> <<>>, tables |-> FALSE, jl_fvars |-> <<>>, jl_gvars |-> <<>>,
     jl_fvar_idxs |-> <<>>, jl_gvar_idxs |-> <<>>,
     suffix |-> <<"freed">>, difile |-> <<"freed">>]

\* getLazyBitcodeModule: the global values are read, the function bodies are
\* left to be materialized (a materializable function is no declaration)
getLazyBitcodeModule(buf) ==
    [buf.bitcode EXCEPT
        !.gvs = [g \in DOMAIN buf.bitcode.gvs |->
                    IF buf.bitcode.gvs[g].kind = "Function" /\ ~buf.bitcode.gvs[g].decl
                    THEN [buf.bitcode.gvs[g] EXCEPT !.lazy = TRUE]
                    ELSE buf.bitcode.gvs[g]]]

\* --------------------------------------------------------- materializePreserved
\* M.getNamedValue(name): the global values of that name (none or one)
getNamedValue(gvs, name) == {g \in DOMAIN gvs : gvs[g].name = name}

PreserveBug(gvs, P) ==
    {g \in DOMAIN gvs : gvs[g].name \in DOMAIN P.globals /\ ~P.globals[gvs[g].name]}

\* lines 1130-1143: the set Preserve
Preserve(gvs, P) ==
    {g \in DOMAIN gvs : gvs[g].name \in DOMAIN P.globals /\ P.globals[gvs[g].name]}

\* line 1133: every name of the partition is a definition without local linkage
PreserveAsserts(gvs, P) ==
    \A name \in DOMAIN P.globals :
        /\ getNamedValue(gvs, name) # {}
        /\ \A g \in getNamedValue(gvs, name) :
               ~isDeclaration(gvs[g]) /\ ~hasLocalLinkage(gvs[g])

\* lines 1134-1139: a name entered with false becomes internal
Internalize(gvs, P) ==
    [g \in DOMAIN gvs |->
        IF gvs[g].name \in DOMAIN P.globals /\ ~P.globals[gvs[g].name]
        THEN [gvs[g] EXCEPT !.linkage = "internal"] ELSE gvs[g]]

StrippedBug(G) ==
    [G EXCEPT !.decl = TRUE, !.lazy = FALSE, !.insts = 0, !.bbs = 0,
              !.operands = {}, !.uses = {},
              !.linkage = "external", !.visibility = "hidden"]

\* deleteBody / setInitializer(nullptr), then external, hidden, dso_local
Stripped(G) ==
    [G EXCEPT !.decl = TRUE, !.lazy = FALSE, !.insts = 0, !.bbs = 0,
              !.operands = {}, !.uses = {},
              !.linkage = "external", !.visibility = "hidden", !.dsolocal = TRUE]

\* lines 1145-1169: the loops over M.functions() and M.globals()
StripBodies(gvs, keep) ==
    [g \in DOMAIN gvs |->
        IF /\ gvs[g].kind \in {"Function", "GlobalVariable"}
           /\ ~isDeclaration(gvs[g])
           /\ ~hasLocalLinkage(gvs[g])
           /\ g \notin keep
        THEN Stripped(gvs[g]) ELSE gvs[g]]

FreshValue(gvs) == SetMax(DOMAIN gvs) + 1

\* lines 1184-1195: the placeholder of an alias, and the alias pointed at it
\* (only an alias of function type is pointed at its placeholder)
Placeholder(gvs, GA) ==
    LET F == FreshValue(gvs)
    IN  IF gvs[GA].fnty
        THEN [MapPut(gvs, F, FnDef(1, 1, <<>>)) EXCEPT ![GA].operands = {F}]
        ELSE MapPut(gvs, F, GvDef)

\* lines 1177-1196: the loop over M.aliases(), for the aliases from the list
RECURSIVE PlaceholderAliases(_, _, _, _)
PlaceholderAliases(gvs, aliases, keep, Deleted) ==
    IF aliases = <<>> THEN [gvs |-> gvs, DeletedAliases |-> Deleted]
    ELSE LET GA == Head(aliases)
         IN  IF GA \in keep \/ hasLocalLinkage(gvs[GA])
             THEN PlaceholderAliases(gvs, Tail(aliases), keep, Deleted)
             ELSE PlaceholderAliases(Placeholder(gvs, GA), Tail(aliases), keep,
                      Append(Deleted, <<GA, FreshValue(gvs)>>))

materializeAllBug(gvs) == gvs

\* M.materializeAll(): every function body is read, its uses enter the use lists
materializeAll(gvs) == [g \in DOMAIN gvs |-> [gvs[g] EXCEPT !.lazy = FALSE]]

Subst(S, old, new) == IF old \in S THEN (S \ {old}) \cup {new} ELSE S

\* replaceAllUsesWith: every use in a use list; the operands of a body that
\* was not materialized are in no use list
replaceAllUsesWith(gvs, old, new) ==
    [g \in DOMAIN gvs |->
        [gvs[g] EXCEPT !.operands = Subst(@, old, new),
                       !.uses = IF gvs[g].lazy THEN @ ELSE Subst(@, old, new)]]

eraseFromParent(gvs, GV) == [g \in (DOMAIN gvs) \ {GV} |-> gvs[g]]

\* lines 1201-1209 for one deleted alias
ReplaceAlias(gvs, GA, PH) ==
    LET named == [gvs EXCEPT ![PH].name = gvs[GA].name, ![GA].name = <<>>]
        erased == eraseFromParent(replaceAllUsesWith(named, GA, PH), GA)
    IN  [erased EXCEPT ![PH].decl = TRUE, ![PH].insts = 0, ![PH].bbs = 0,
                       ![PH].operands = {}, ![PH].uses = {}]

\* lines 1200-1210
RECURSIVE ReplaceAliases(_, _)
ReplaceAliases(gvs, Deleted) ==
    IF Deleted = <<>> THEN gvs
    ELSE ReplaceAliases(ReplaceAlias(gvs, Head(Deleted)[1], Head(Deleted)[2]),
                        Tail(Deleted))

\* ---------------------------------------------------------------- construct_vars
\* the orders in which a StringMap may hand out its keys
Orders(S) ==
    {o \in [1..Cardinality(S) -> S] : \A a, b \in 1..Cardinality(S) : a # b => o[a] # o[b]}

SortPairsBug(pairs) == pairs

\* std::sort of (flat id, global value) pairs
RECURSIVE SortPairs(_)
SortPairs(pairs) ==
    IF pairs = <<>> THEN <<>>
    ELSE LET k == CHOOSE a \in 1..Len(pairs) :
                    \A b \in 1..Len(pairs) :
                        pairs[a][1] < pairs[b][1]
                        \/ (pairs[a][1] = pairs[b][1] /\ pairs[a][2] <= pairs[b][2])
         IN  <<pairs[k]>> \o
             SortPairs([b \in 1..(Len(pairs) - 1) |-> IF b < k THEN pairs[b] ELSE pairs[b + 1]])

\* M.getFunction(name) / M.getNamedGlobal(name); 0 stands for the null pointer
getNamed(gvs, name, kind) ==
    IF \E g \in getNamedValue(gvs, name) : gvs[g].kind = kind
    THEN CHOOSE g \in getNamedValue(gvs, name) : gvs[g].kind = kind
    ELSE 0

VarPairsBug(gvs, table, order, kind) ==
    SortPairs([k \in 1..Len(order) |-> <<k - 1, getNamed(gvs, order[k], kind)>>])

\* lines 1215-1231 (kind Function) and 1232-1248 (kind GlobalVariable)
VarPairs(gvs, table, order, kind) ==
    SortPairs([k \in 1..Len(order) |-> <<table[order[k]], getNamed(gvs, order[k], kind)>>])

\* lines 1219-1220 and 1236-1237
ConstructAsserts(gvs, P) ==
    /\ \A n \in DOMAIN P.fvars :
          getNamed(gvs, n, "Function") # 0
          /\ ~isDeclaration(gvs[getNamed(gvs, n, "Function")])
    /\ \A n \in DOMAIN P.gvars :
          getNamed(gvs, n, "GlobalVariable") # 0
          /\ ~isDeclaration(gvs[getNamed(gvs, n, "GlobalVariable")])

construct_varsBug(Mod, P, forder, gorder, t) ==
    LET fp == VarPairs(Mod.gvs, P.fvars, forder, "Function")
        gp == VarPairs(Mod.gvs, P.gvars, gorder, "GlobalVariable")
    IN  [Mod EXCEPT !.tables = TRUE,
                    !.jl_fvars = [k \in 1..Len(fp) |-> fp[k][2]],
                    !.jl_fvar_idxs = [k \in 1..Len(fp) |-> fp[k][1]],
                    !.jl_gvars = [k \in 1..Len(gp) |-> gp[k][2]],
                    !.jl_gvar_idxs = [k \in 1..Len(gp) |-> gp[k][1]],
                    !.suffix = <<"_", 0>>,
                    !.difile = <<"julia#", 0>>]

\* construct_vars, and the suffix and the file of lines 1371-1376, for shard t
construct_vars(Mod, P, forder, gorder, t) ==
    LET fp == VarPairs(Mod.gvs, P.fvars, forder, "Function")
        gp == VarPairs(Mod.gvs, P.gvars, gorder, "GlobalVariable")
    IN  [Mod EXCEPT !.tables = TRUE,
                    !.jl_fvars = [k \in 1..Len(fp) |-> fp[k][2]],
                    !.jl_fvar_idxs = [k \in 1..Len(fp) |-> fp[k][1]],
                    !.jl_gvars = [k \in 1..Len(gp) |-> gp[k][2]],
                    !.jl_gvar_idxs = [k \in 1..Len(gp) |-> gp[k][1]],
                    !.suffix = <<"_", t>>,
                    !.difile = <<"julia#", t>>]

\* ---------------------------------------------------------------- add_output_impl
\* The backend compile of one module is opaque: its output is what it was given
NoOutput == [compiled |-> FALSE, module |-> <<>>]
add_output_impl(Mod) == [compiled |-> TRUE, module |-> Mod]

RECURSIVE NameGlobalsBug(_, _, _)
NameGlobalsBug(gvs, k, counter) ==
    IF k > Len(gvs) THEN gvs
    ELSE IF ~isDeclaration(gvs[k]) /\ gvs[k].name = <<>>
    THEN NameGlobalsBug([gvs EXCEPT ![k].name = <<"jl_ext_", counter>>], k + 1, counter)
    ELSE NameGlobalsBug(gvs, k + 1, counter)

\* lines 1336-1340: the definitions without name get "jl_ext_" and a counter
RECURSIVE NameGlobals(_, _, _)
NameGlobals(gvs, k, counter) ==
    IF k > Len(gvs) THEN gvs
    ELSE IF ~isDeclaration(gvs[k]) /\ gvs[k].name = <<>>
    THEN NameGlobals([gvs EXCEPT ![k].name = <<"jl_ext_", counter>>], k + 1, counter + 1)
    ELSE NameGlobals(gvs, k + 1, counter)

\* ------------------------------------------------- compute_image_thread_count
\* line 1419: the number of globals above which a COFF image gets one thread
COFFSymbolLimit == 64000
\* line 1426: the weight below which a module gets one thread
SmallModuleWeight == 1000
\* line 1433: the number of globals that one thread is worth
GlobalsPerThread == 100

\* A C string is a sequence of characters; getenv gives a string or the null
\* pointer
NoEnv == [set |-> FALSE, str |-> <<>>]
Env(str) == [set |-> TRUE, str |-> str]

Digits == <<"0", "1", "2", "3", "4", "5", "6", "7", "8", "9">>
isdigit(c) == \E d \in 1..10 : Digits[d] = c
DigitValue(c) == (CHOOSE d \in 1..10 : Digits[d] = c) - 1

RECURSIVE SkipSpace(_)
SkipSpace(str) ==
    IF str # <<>> /\ Head(str) = " " THEN SkipSpace(Tail(str)) ELSE str

\* An unsigned long (64 bits) is held in two parts, hi * 2^16 + lo, as the
\* TLC integers end below 2^31; an unsigned (32 bits) of the model
\* stays below 2^31 and is an integer.
Limb == 2 ^ 16
ULong(n) == [hi |-> n \div Limb, lo |-> n % Limb]
ULongTimesTenPlus(w, d) ==
    [hi |-> w.hi * 10 + (w.lo * 10 + d) \div Limb, lo |-> (w.lo * 10 + d) % Limb]
ULongIsZero(w) == w.hi = 0 /\ w.lo = 0
\* requested < threads, compared as unsigned long
ULongLess(w, n) == w.hi < Limb \div 2 /\ w.hi * Limb + w.lo < n
\* the value is the integer n
ULongIs(w, n) == w = ULong(n)

\* threads = requested: the conversion of unsigned long to unsigned keeps the
\* low 32 bits
ToUnsigned(w) == (w.hi % Limb) * Limb + w.lo

\* the digits at the head of str: their value, what follows
RECURSIVE ParseDigits(_, _, _)
ParseDigits(str, acc, any) ==
    IF str # <<>> /\ isdigit(Head(str))
    THEN ParseDigits(Tail(str), ULongTimesTenPlus(acc, DigitValue(Head(str))), TRUE)
    ELSE [value |-> acc, rest |-> str, any |-> any]

\* strtoul(str, &endptr, 10) with a long of 64 bits: white space, a sign,
\* digits. The strings of EnvValues have at most ten digits and no minus sign:
\* no value reaches 2^64, and none is 2^31 or more once converted to unsigned.
strtoul(str) ==
    LET s1 == SkipSpace(str)
        s2 == IF s1 # <<>> /\ Head(s1) = "+" THEN Tail(s1) ELSE s1
        d == ParseDigits(s2, ULong(0), FALSE)
    IN  IF ~d.any THEN [value |-> ULong(0), endptr |-> str]
        ELSE [value |-> d.value, endptr |-> d.rest]

\* lines 1441 and 1456: *endptr || !requested
Invalid(r) == r.endptr # <<>> \/ ULongIsZero(r.value)

ForcedSingleBug(info, ceiling, P32) ==
    \/ P32
    \/ info.coff /\ info.globals < ceiling
    \/ info.weight < SmallModuleWeight

ForcedSingleNoFloor(info, ceiling, P32) ==
    \/ P32
    \/ info.coff /\ info.globals > ceiling

\* lines 1413-1429: the cases that return 1 before anything is computed; ceiling
\* stands for the 64000 of line 1419
ForcedSingle(info, ceiling, P32) ==
    \/ P32
    \/ info.coff /\ info.globals > ceiling
    \/ info.weight < SmallModuleWeight

DefaultThreadsBug(info, cpu) == Max(cpu \div 2, 1)

\* lines 1431-1437: half the cpu threads, at most one thread per 100 globals
DefaultThreads(info, cpu) ==
    LET half == Max(cpu \div 2, 1)
        max_threads == info.globals \div GlobalsPerThread
    IN  IF max_threads < half THEN max_threads ELSE half

ImageThreadsBug(default, env_threads) ==
    IF ~env_threads.set THEN [threads |-> default, env_threads_set |-> FALSE, warnings |-> <<>>]
    ELSE LET r == strtoul(env_threads.str)
         IN  IF Invalid(r)
             THEN [threads |-> default, env_threads_set |-> TRUE,
                   warnings |-> <<<<"JULIA_IMAGE_THREADS", env_threads.str>>>>]
             ELSE [threads |-> ToUnsigned(r.value), env_threads_set |-> TRUE,
                   warnings |-> <<>>]

\* lines 1439-1453: JULIA_IMAGE_THREADS
ImageThreads(default, env_threads) ==
    IF ~env_threads.set THEN [threads |-> default, env_threads_set |-> FALSE, warnings |-> <<>>]
    ELSE LET r == strtoul(env_threads.str)
         IN  IF Invalid(r)
             THEN [threads |-> default, env_threads_set |-> FALSE,
                   warnings |-> <<<<"JULIA_IMAGE_THREADS", env_threads.str>>>>]
             ELSE [threads |-> ToUnsigned(r.value), env_threads_set |-> TRUE,
                   warnings |-> <<>>]

CpuThreadsBug(st, fallbackenv) ==
    IF st.env_threads_set \/ ~(st.threads > 1) \/ ~fallbackenv.set THEN st
    ELSE LET r == strtoul(fallbackenv.str)
         IN  IF Invalid(r)
             THEN [st EXCEPT !.warnings = Append(@, <<"JULIA_CPU_THREADS", fallbackenv.str>>)]
             ELSE [st EXCEPT !.threads = ToUnsigned(r.value)]

\* lines 1455-1468: JULIA_CPU_THREADS
CpuThreads(st, fallbackenv) ==
    IF st.env_threads_set \/ ~(st.threads > 1) \/ ~fallbackenv.set THEN st
    ELSE LET r == strtoul(fallbackenv.str)
         IN  IF Invalid(r)
             THEN [st EXCEPT !.warnings = Append(@, <<"JULIA_CPU_THREADS", fallbackenv.str>>)]
             ELSE IF ULongLess(r.value, st.threads)
             THEN [st EXCEPT !.threads = ToUnsigned(r.value)]
             ELSE st

compute_image_thread_countBug(info, ceiling, P32, cpu, env_threads, fallbackenv) ==
    IF ForcedSingle(info, ceiling, P32) THEN [threads |-> 1, warnings |-> <<>>]
    ELSE LET st == CpuThreads(ImageThreads(DefaultThreads(info, cpu), env_threads),
                              fallbackenv)
         IN  [threads |-> st.threads, warnings |-> st.warnings]

\* compute_image_thread_count: the number of threads and the warnings printed
compute_image_thread_count(info, ceiling, P32, cpu, env_threads, fallbackenv) ==
    IF ForcedSingle(info, ceiling, P32) THEN [threads |-> 1, warnings |-> <<>>]
    ELSE LET st == CpuThreads(ImageThreads(DefaultThreads(info, cpu), env_threads),
                              fallbackenv)
         IN  [threads |-> Max(st.threads, 1), warnings |-> st.warnings]

\* the inputs of compute_image_thread_count
EnvValues ==
    {NoEnv, Env(<<>>), Env(<<"0">>), Env(<<"1">>), Env(<<"3">>), Env(<<"3", "x">>),
     Env(<<" ", "+", "2">>), Env(<<"4", "2", "9", "4", "9", "6", "7", "2", "9", "6">>)}

ThreadInputs ==
    [info : [globals : {50, 250, 450, COFFSymbolLimit, COFFSymbolLimit + 1, COFFSymbolLimit + 2},
             weight : {SmallModuleWeight - 1, SmallModuleWeight},
             coff : BOOLEAN],
     ceiling : COFFSymbolLimit..(COFFSymbolLimit + MaxRaise),
     P32 : BOOLEAN,
     cpu : {1, 4, 8},
     env_threads : EnvValues,
     fallbackenv : EnvValues,
     called : {FALSE},
     threads : {0},
     warnings : {<<>>}]

NoCall == <<>>

\* -------------------------------------------------------- jl_dump_native_impl
\* std::string / a buffer of bytes without content
EmptyBuffer == <<>>

\* AOTOutputs as add_output returns them for the module name: slot i holds, for
\* every kind of output that was asked for, the bytes of shard i
AOTOutputs(name, k, d) ==
    [unopt |-> IF d.unopt_bc_fname THEN <<name, k, "unopt">> ELSE EmptyBuffer,
     opt |-> IF d.bc_fname THEN <<name, k, "opt">> ELSE EmptyBuffer,
     obj |-> IF d.obj_fname THEN <<name, k, "obj">> ELSE EmptyBuffer,
     asm_ |-> IF d.asm_fname THEN <<name, k, "asm_">> ELSE EmptyBuffer]

\* the lambda compile of lines 1534-1536: add_output(M, TM, name, threads, ...)
compile(name, T, d) == [k \in 0..(T - 1) |-> AOTOutputs(name, k, d)]

\* what a read of slot 0 of a SmallVector without elements can give
Uninitialized == {EmptyBuffer, <<"uninitialized">>}

ArchiveMembersBug(d, field, prefix, suffix, meta) ==
    [k \in 1..d.threads |->
        [name |-> <<"text", prefix, "#", k - 1, suffix>>,
         buffer |-> d.data_outputs[k - 1][field]]]
    \o (IF d.z
        THEN <<[name |-> <<"sysimg", prefix, suffix>>,
                buffer |-> d.sysimg_outputs[0][field]]>>
        ELSE <<>>)
    \o <<[name |-> <<"metadata", prefix, suffix>>, buffer |-> meta]>>

\* WRITE_ARCHIVE, lines 1759-1774: the members of the archive, meta standing
\* for the bytes read from metadata_outputs[0]
ArchiveMembers(d, field, prefix, suffix, meta) ==
    [k \in 1..d.threads |->
        [name |-> <<"text", prefix, "#", k - 1, suffix>>,
         buffer |-> d.data_outputs[k - 1][field]]]
    \o <<[name |-> <<"metadata", prefix, suffix>>, buffer |-> meta]>>
    \o (IF d.z
        THEN <<[name |-> <<"sysimg", prefix, suffix>>,
                buffer |-> d.sysimg_outputs[0][field]]>>
        ELSE <<>>)

\* the inputs of jl_dump_native_impl: the four file names and z (given or
\* null), params->emit_metadata, imaging_mode, and count, the number that
\* compute_image_thread_count returns for the module
DumpInputs ==
    [bc_fname : BOOLEAN, unopt_bc_fname : BOOLEAN, obj_fname : BOOLEAN,
     asm_fname : BOOLEAN, z : BOOLEAN, emit_metadata : BOOLEAN,
     imaging_mode : BOOLEAN, count : 1..MaxThreads,
     pc : {"entry"}, threads : {1},
     sysimg_outputs : {EmptyArr}, data_outputs : {EmptyArr},
     metadata_outputs : {EmptyArr},
     archives : {<<>>}, errors : {<<>>}]

\* ------------------------------------------------------------ get_fvars_gvars
\* The global values that a table of a module handed to get_fvars_gvars may
\* list: two functions and a variable with names, a declaration of a function
\* and one of a variable without name (a definition has a name: lines 1336-1340)
ExtractValues ==
    <<[FnDef(1, 1, <<>>) EXCEPT !.name = NameOf(1)],
      [FnDef(1, 1, <<>>) EXCEPT !.name = NameOf(2)],
      FnDecl,
      [GvDef EXCEPT !.name = NameOf(4)],
      GvDecl>>

hasName(G) == G.name # <<>>

\* A table symbol of the module: there or not (getGlobalVariable gives null),
\* its initializer a ConstantArray or another constant, the operands
TableSymbols(operands) ==
    [present : BOOLEAN, array : BOOLEAN, operands : operands]

SeqsUpTo(S, n) == UNION {[1..k -> S] : k \in 0..n}

\* the inputs of get_fvars_gvars: the build (with the assertions, or with
\* NDEBUG) and the four symbols; erased: lines 611-614 have run
ExtractInputs ==
    [assertions : BOOLEAN,
     jl_fvars : TableSymbols(SeqsUpTo({1, 2, 3}, 2)),
     jl_gvars : TableSymbols(SeqsUpTo({4, 5}, 1)),
     jl_fvar_idxs : BOOLEAN,
     jl_gvar_idxs : BOOLEAN,
     pc : {"called"},
     fvars : {EmptyArr},
     gvars : {EmptyArr},
     erased : {FALSE}]

\* the loops of lines 597-602 and 604-609 without their assertions:
\* fvars[gv] = i, a later position overwriting an earlier one
LastMap(table) ==
    [gv \in {table[k] : k \in 1..Len(table)} |->
        SetMax({k \in 1..Len(table) : table[k] = gv}) - 1]

\* lines 591-594: the four symbols are there
SymbolsPresent(e) ==
    e.jl_fvars.present /\ e.jl_gvars.present /\ e.jl_fvar_idxs /\ e.jl_gvar_idxs

\* lines 595-596: cast<ConstantArray> of the two initializers
SymbolsAreArrays(e) == e.jl_fvars.array /\ e.jl_gvars.array

\* lines 599-600, 603 and 606-607, 610: every entry has a name and is there once
EntriesAsserts(table) ==
    /\ \A k \in 1..Len(table) : hasName(ExtractValues[table[k]])
    /\ \A k, l \in 1..Len(table) : table[k] = table[l] => k = l

\* get_fvars_gvars, the states it can end in. With the assertions every check
\* that does not hold stops the process. With NDEBUG no check is left: an
\* entry without name or listed twice is taken; a symbol that is missing is a
\* null pointer that is dereferenced, an initializer that is no array is read as
\* one, and the process stops or goes on with what the operands give.
get_fvars_gvars(e) ==
    LET returned == [e EXCEPT !.pc = "returned",
                              !.fvars = LastMap(e.jl_fvars.operands),
                              !.gvars = LastMap(e.jl_gvars.operands),
                              !.erased = TRUE]
        aborted == [e EXCEPT !.pc = "abort"]
        checked == /\ SymbolsPresent(e) /\ SymbolsAreArrays(e)
                   /\ EntriesAsserts(e.jl_fvars.operands)
                   /\ EntriesAsserts(e.jl_gvars.operands)
    IN  IF e.assertions THEN (IF checked THEN {returned} ELSE {aborted})
        ELSE IF SymbolsPresent(e) /\ SymbolsAreArrays(e) THEN {returned}
        ELSE {returned, aborted}

\* -------------------------------------------------------- verify_partitioning
Owners(parts, name) == {k \in DOMAIN parts : name \in DOMAIN parts[k].globals}

FvarOwners(parts, id) ==
    {e \in UNION {{<<k, n>> : n \in DOMAIN parts[k].fvars} : k \in DOMAIN parts} :
        parts[e[1]].fvars[e[2]] = id}

GvarOwners(parts, id) ==
    {e \in UNION {{<<k, n>> : n \in DOMAIN parts[k].gvars} : k \in DOMAIN parts} :
        parts[e[1]].gvars[e[2]] = id}

\* TRUE iff verify_partitioning finds nothing bad (a build with assertions)
verify_partitioning(parts, gvs, fvars_size, gvars_size) ==
    /\ \A g \in DOMAIN gvs : Cardinality(Owners(parts, gvs[g].name)) <= 1
    /\ \A id \in 0..(fvars_size - 1) : Cardinality(FvarOwners(parts, id)) = 1
    /\ \A id \in 0..(gvars_size - 1) : Cardinality(GvarOwners(parts, id)) = 1
    /\ \A g \in DOMAIN gvs :
        IF isDeclaration(gvs[g]) \/ ~canPartition(gvs[g])
        THEN Owners(parts, gvs[g].name) = {}
        ELSE /\ Owners(parts, gvs[g].name) # {}
             /\ \A u \in {v \in DOMAIN gvs : g \in gvs[v].operands} :
                    /\ Owners(parts, gvs[u].name) # {}
                    /\ Owners(parts, gvs[u].name) = Owners(parts, gvs[g].name)

\* ------------------------------------------------------------------ actions
\* One function of weight 100 and nine variables of weight 1, unconnected
ScenarioModule ==
    MakeModule(Named([g \in 1..10 |-> IF g = 1 THEN FnDef(98, 1, <<>>) ELSE GvDef]), "rev")

\* the values of the attribute julia.mv.clones, as hex digits
CloneHexes == {<<0>>, <<15>>, <<3, 8>>, <<10, 5>>}

\* A function of some size, with or without the attribute, and a variable
CloneModules ==
    {MakeModule(Named(<<FnDef(a, b, hex), GvDef>>), "rev") :
        a \in 1..MaxInsts, b \in 1..MaxInsts, hex \in CloneHexes \cup {<<>>}}

Modules == GraphModules \cup WeightModules \cup CloneModules

\* the number of operands a module holds, the aliasees apart
NumEdges(m) ==
    Cardinality(UNION {{<<g, o>> : o \in m.gvs[g].operands} :
                        g \in {h \in DOMAIN m.gvs : m.gvs[h].kind # "GlobalAlias"}})
    + Cardinality(UNION {{<<g, o>> : o \in m.gvs[g].uses} : g \in DOMAIN m.gvs})

\* A module of which some definitions have no name (a declaration has one)
Unnamed(m, S) ==
    [m EXCEPT !.gvs = [g \in DOMAIN m.gvs |->
                          IF g \in S THEN [m.gvs[g] EXCEPT !.name = <<>>] ELSE m.gvs[g]]]

UnnamedModules ==
    UNION {{Unnamed(m, S) :
               S \in (SUBSET {g \in DOMAIN m.gvs : ~isDeclaration(m.gvs[g])}) \ {{}}} :
           m \in {n \in GraphModules : Len(n.gvs) <= 2 /\ NumEdges(n) = 0}}

\* the inputs of add_output
PipelineModules == {m \in GraphModules : NumEdges(m) <= MaxEdges} \cup UnnamedModules

\* assert and the body of verify_partitioning are compiled in (no NDEBUG, no
\* JL_NDEBUG); where the build is not part of the input, no assertion fails
Assertions == IF ext = NoCall THEN TRUE ELSE ext.assertions

Start(e, inputs) ==
    /\ entry = e
    /\ \E in \in inputs : M0 = in[1] /\ threads = in[2]
    /\ M = M0
    /\ pc = entry
    /\ fvars = EmptyArr /\ gvars = EmptyArr /\ nodes = EmptyArr
    /\ i = 0 /\ idxs = <<>> /\ idx = 0
    /\ partitions = EmptyArr /\ pq = EmptyArr
    /\ failed = {}
    /\ serialized = <<>>
    /\ released = 0
    /\ spawned = 0 /\ joined = 0
    /\ wpc = [t \in 0..(threads - 1) |-> "idle"]
    /\ WM = [t \in 0..(threads - 1) |-> <<>>]
    /\ DeletedAliases = [t \in 0..(threads - 1) |-> <<>>]
    /\ outputs = [t \in 0..(threads - 1) |-> NoOutput]
    /\ timers = [t \in 0..(threads - 1) |-> <<>>]

\* add_output is called with a module and a number of threads
Init ==
    /\ Start("add_output", PipelineModules \X (1..MaxWorkers))
    /\ tc = NoCall
    /\ dump = NoCall
    /\ ext = NoCall
    /\ impl = NoCall

\* partitionModule is called with a module and a number of threads, in a
\* build with assertions or without them (JL_NDEBUG, line 708)
InitPartition ==
    /\ Start("partitionModule", (Modules \X (1..MaxThreads)) \cup {<<ScenarioModule, 2>>})
    /\ tc = NoCall
    /\ dump = NoCall
    /\ ext \in [assertions : BOOLEAN]
    /\ impl = NoCall

\* a forced-inline function that holds a value with a node as a constant
\* operand (the case of the comment at line 853), next to other definitions
DependentShapes ==
    {s \in UNION {[1..n -> {FnDef(1, 1, <<>>), FnInline("internal"), FnInline("external"),
                            GvDef}] : n \in 2..MaxSyms} :
        /\ \A a, b \in DOMAIN s : a < b => KindRank(s[a]) <= KindRank(s[b])
        /\ Cardinality({g \in DOMAIN s : ~canPartition(s[g])}) = 1}

DependentModules ==
    UNION {{MakeModule(WithEdges(s, {<<f, g>>}, {}, <<>>), "rev") :
               f \in {h \in DOMAIN s : ~canPartition(s[h])},
               g \in {h \in DOMAIN s : canPartition(s[h])}} :
           s \in DependentShapes}

\* partitionModule is called, in a build with or without assertions, with a
\* module that breaks the precondition of line 853
InitVerify ==
    /\ Start("partitionModule", DependentModules \X (2..MaxThreads))
    /\ tc = NoCall
    /\ dump = NoCall
    /\ ext \in [assertions : BOOLEAN]
    /\ impl = NoCall

\* compute_image_thread_count is called for the module of jl_dump_native_impl
InitThreads ==
    /\ Start("compute_image_thread_count", {<<ScenarioModule, 1>>})
    /\ tc \in ThreadInputs
    /\ dump = NoCall
    /\ ext = NoCall
    /\ impl = NoCall

CompileSingleBug ==
    /\ pc = "add_output"
    /\ threads = 1
    /\ outputs' = [outputs EXCEPT ![0] = add_output_impl([M EXCEPT !.gvs = NameGlobals(@, 1, 0)])]
    /\ pc' = "compiled"
    /\ timers' = [timers EXCEPT ![0] = Append(@, "output")]
    /\ UNCHANGED <<tc, dump, ext, impl, entry, M0, M, threads, pvars, failed, ovars, wpc, WM, DeletedAliases>>

\* add_output, lines 1311-1317: a single thread compiles the module as it is
CompileSingle ==
    /\ pc = "add_output"
    /\ threads = 1
    /\ outputs' = [outputs EXCEPT ![0] = add_output_impl(M)]
    /\ pc' = "compiled"
    /\ timers' = [timers EXCEPT ![0] = Append(@, "output")]
    /\ UNCHANGED <<tc, dump, ext, impl, entry, M0, M, threads, pvars, failed, ovars, wpc, WM, DeletedAliases>>

ReleaseSingleBug ==
    /\ pc = "compiled"
    /\ pc' = "done"
    /\ UNCHANGED <<timers, tc, dump, ext, impl, entry, M0, M, threads, pvars, failed, serialized,
                   released, spawned, joined, wvars>>

\* add_output, lines 1319-1329: module_released(M) and return
ReleaseSingle ==
    /\ pc = "compiled"
    /\ released' = released + 1
    /\ M' = module_released(M)
    /\ pc' = "done"
    /\ UNCHANGED <<timers, tc, dump, ext, impl, entry, M0, threads, pvars, failed, serialized, spawned, joined, wvars>>

\* add_output, lines 1332-1341: name the definitions, call partitionModule
NameDefinitions ==
    /\ pc = "add_output"
    /\ threads > 1
    /\ M' = [M EXCEPT !.gvs = NameGlobals(M.gvs, 1, 0)]
    /\ pc' = "partitionModule"
    /\ UNCHANGED <<timers, tc, dump, ext, impl, entry, M0, threads, pvars, failed, ovars, wvars>>

\* partitionModule, lines 787-846: get_fvars_gvars, then one node per
\* definition that can be partitioned
MakeNodes ==
    /\ pc = "partitionModule"
    /\ fvars' = TableMap(M.jl_fvars)
    /\ gvars' = TableMap(M.jl_gvars)
    /\ nodes' = MakeAll(M.gvs, 1, EmptyArr)
    /\ M' = [M EXCEPT !.gvs = Externalize(M.gvs), !.tables = FALSE,
                       !.jl_fvars = <<>>, !.jl_gvars = <<>>,
                       !.jl_fvar_idxs = <<>>, !.jl_gvar_idxs = <<>>]
    /\ i' = 0
    /\ pc' = "merge"
    /\ UNCHANGED <<timers, tc, dump, ext, impl, entry, M0, threads, idxs, idx, partitions, pq, failed, ovars, wvars>>

\* partitionModule, lines 849-858: one iteration of the outer loop. A user
\* without a node fails the assertion of line 855; without assertions
\* idx->second is read from the end iterator, which is undefined: the process
\* stops, or the read yields the index of some node and the loop goes on
MergeUses ==
    /\ pc = "merge"
    /\ i < ALen(nodes)
    /\ LET users == ConstantUses(nodes[i].GV, M.gvs)
           known == \A k \in 1..Len(users) : users[k] \in DOMAIN node_map(nodes)
           withNode == SetToSeq({u \in DOMAIN M.gvs :
                                    /\ nodes[i].GV \in M.gvs[u].operands
                                    /\ u \in DOMAIN node_map(nodes)})
       IN  IF known
           THEN /\ nodes' = MergeUsers(nodes, i, users)
                /\ i' = i + 1
                /\ UNCHANGED <<pc, failed>>
           ELSE IF Assertions
           THEN /\ failed' = failed \cup {855}
                /\ pc' = "abort"
                /\ UNCHANGED <<nodes, i>>
           ELSE \/ /\ pc' = "abort"
                   /\ UNCHANGED <<nodes, i, failed>>
                \/ /\ \E x \in DOMAIN nodes :
                          nodes' = merge(MergeUsers(nodes, i, withNode), i, x)
                   /\ i' = i + 1
                   /\ UNCHANGED <<pc, failed>>
    /\ UNCHANGED <<timers, tc, dump, ext, impl, entry, M0, M, threads, fvars, gvars, idxs, idx, partitions, pq, ovars, wvars>>

\* partitionModule, lines 860-876: the partitions, their queue, the sorted idxs
SortNodes ==
    /\ pc = "merge"
    /\ i = ALen(nodes)
    /\ partitions' = [k \in 0..(threads - 1) |-> EmptyPartition]
    /\ pq' = PqInit(EmptyArr, 0, partitions')
    /\ idxs' = Arr(SortByWeight(nodes, DOMAIN nodes))
    /\ idx' = 0
    /\ pc' = "assign"
    /\ UNCHANGED <<timers, tc, dump, ext, impl, entry, M0, M, threads, fvars, gvars, nodes, i, failed, ovars, wvars>>

\* The body of the loop at line 879 for the node idxs[idx]
AssignNode(ns0, parts0, h0, n, gvs, fv, gv) ==
    LET f == find(ns0, n)
        root == f.idx
        ns1 == f.nodes
        a882 == root = n \/ ns1[root].weight = 0
        takes == ns1[root].weight # 0
        P == PqTop(h0)
        parts1 == IF takes
                  THEN [parts0 EXCEPT
                          ![P] = [AddGlobal(@, ns1[root].GV, gvs[ns1[root].GV].name, fv, gv)
                                    EXCEPT !.weight = @ + ns1[root].weight]]
                  ELSE parts0
        ns2 == IF takes THEN [ns1 EXCEPT ![root].weight = 0, ![root].size = P] ELSE ns1
        h1 == IF takes THEN PqPush(PqPop(h0, parts0), P, parts1) ELSE h0
        a900 == root = n \/ ns2[n].weight # 0
        Q == ns2[root].size
        parts2 == IF root # n /\ Q \in DOMAIN parts1
                  THEN [parts1 EXCEPT ![Q] = AddGlobal(@, ns2[n].GV, gvs[ns2[n].GV].name,
                                                      fv, gv)]
                  ELSE parts1
        ns3 == IF root # n THEN [ns2 EXCEPT ![n].weight = 0, ![n].size = Q] ELSE ns2
    IN  [nodes |-> ns3, partitions |-> parts2, pq |-> h1,
         failed |-> (IF a882 THEN {} ELSE {882}) \cup (IF a900 THEN {} ELSE {900})]

\* partitionModule, lines 879-913: one iteration of the assignment loop
Assign ==
    /\ pc = "assign"
    /\ idx < ALen(idxs)
    /\ LET r == AssignNode(nodes, partitions, pq, idxs[idx], M.gvs, fvars, gvars)
       IN  /\ nodes' = r.nodes
           /\ partitions' = r.partitions
           /\ pq' = r.pq
           /\ failed' = failed \cup r.failed
    /\ idx' = idx + 1
    /\ UNCHANGED <<timers, tc, dump, ext, impl, entry, M0, M, threads, fvars, gvars, i, idxs, pc, ovars, wvars>>

\* partitionModule, lines 915-919: verify and return the partitions; without
\* assertions verify_partitioning checks nothing (line 708) and returns true
Verify ==
    /\ pc = "assign"
    /\ idx = ALen(idxs)
    /\ IF ~Assertions \/ verify_partitioning(partitions, M.gvs, ALen(fvars), ALen(gvars))
       THEN pc' = "partitioned" /\ UNCHANGED failed
       ELSE pc' = "abort" /\ failed' = failed \cup {916}
    /\ UNCHANGED <<timers, tc, dump, ext, impl, entry, M0, M, threads, pvars, ovars, wvars>>

\* add_output, lines 1344-1346
Serialize ==
    /\ pc = "partitioned"
    /\ entry = "add_output"
    /\ serialized' = serializeModule(M)
    /\ pc' = "serialized"
    /\ UNCHANGED <<timers, tc, dump, ext, impl, entry, M0, M, threads, pvars, failed, released, spawned, joined, wvars>>

\* add_output, line 1349: module_released(M)
Release ==
    /\ pc = "serialized"
    /\ released' = released + 1
    /\ M' = module_released(M)
    /\ pc' = "spawn"
    /\ UNCHANGED <<timers, tc, dump, ext, impl, entry, M0, threads, pvars, failed, serialized, spawned, joined, wvars>>

\* add_output, lines 1357-1381: one iteration of the loop that starts the workers
Spawn ==
    /\ pc = "spawn"
    /\ spawned < threads
    /\ wpc' = [wpc EXCEPT ![spawned] = "started"]
    /\ spawned' = spawned + 1
    /\ UNCHANGED <<timers, tc, dump, ext, impl, entry, pc, M0, M, threads, pvars, failed, serialized, released, joined,
                   WM, DeletedAliases, outputs>>

DeserializeBug(t) ==
    /\ wpc[t] = "started"
    /\ WM' = [WM EXCEPT ![t] = getLazyBitcodeModule(serializeModule(M))]
    /\ wpc' = [wpc EXCEPT ![t] = "deserialized"]
    /\ timers' = [timers EXCEPT ![t] = Append(@, "deserialize")]
    /\ UNCHANGED <<tc, dump, ext, impl, entry, pc, M0, M, threads, pvars, failed, ovars, DeletedAliases, outputs>>

\* worker t, lines 1359-1363: its own context, the lazy module
Deserialize(t) ==
    /\ wpc[t] = "started"
    /\ WM' = [WM EXCEPT ![t] = getLazyBitcodeModule(serialized)]
    /\ wpc' = [wpc EXCEPT ![t] = "deserialized"]
    /\ timers' = [timers EXCEPT ![t] = Append(@, "deserialize")]
    /\ UNCHANGED <<tc, dump, ext, impl, entry, pc, M0, M, threads, pvars, failed, ovars, DeletedAliases, outputs>>

\* worker t, materializePreserved lines 1130-1196: strip what is not preserved,
\* give every alias that goes a placeholder
StripDeclarations(t) ==
    /\ wpc[t] = "deserialized"
    /\ LET keep == Preserve(WM[t].gvs, partitions[t])
           gvs1 == StripBodies(Internalize(WM[t].gvs, partitions[t]), keep)
           aliases == SetToSeq({g \in DOMAIN gvs1 : gvs1[g].kind = "GlobalAlias"})
           r == PlaceholderAliases(gvs1, aliases, keep, <<>>)
       IN  /\ WM' = [WM EXCEPT ![t].gvs = r.gvs]
           /\ DeletedAliases' = [DeletedAliases EXCEPT ![t] = r.DeletedAliases]
           /\ failed' = IF PreserveAsserts(WM[t].gvs, partitions[t])
                        THEN failed ELSE failed \cup {1133}
    /\ wpc' = [wpc EXCEPT ![t] = "stripped"]
    /\ UNCHANGED <<timers, tc, dump, ext, impl, entry, pc, M0, M, threads, pvars, ovars, outputs>>

\* worker t, materializePreserved line 1198
MaterializeAll(t) ==
    /\ wpc[t] = "stripped"
    /\ WM' = [WM EXCEPT ![t].gvs = materializeAll(@)]
    /\ wpc' = [wpc EXCEPT ![t] = "materialized"]
    /\ UNCHANGED <<timers, tc, dump, ext, impl, entry, pc, M0, M, threads, pvars, failed, ovars, DeletedAliases, outputs>>

\* worker t, materializePreserved lines 1200-1210
DeleteAliases(t) ==
    /\ wpc[t] = "materialized"
    /\ WM' = [WM EXCEPT ![t].gvs = ReplaceAliases(@, DeletedAliases[t])]
    /\ wpc' = [wpc EXCEPT ![t] = "preserved"]
    /\ timers' = [timers EXCEPT ![t] = Append(@, "materialize")]
    /\ UNCHANGED <<tc, dump, ext, impl, entry, pc, M0, M, threads, pvars, failed, ovars, DeletedAliases, outputs>>

\* worker t, lines 1369-1377: construct_vars, the suffix, the file
ConstructVars(t) ==
    /\ wpc[t] = "preserved"
    /\ \E forder \in Orders(DOMAIN partitions[t].fvars),
          gorder \in Orders(DOMAIN partitions[t].gvars) :
          WM' = [WM EXCEPT ![t] = construct_vars(@, partitions[t], forder, gorder, t)]
    /\ failed' = IF ConstructAsserts(WM[t].gvs, partitions[t])
                 THEN failed ELSE failed \cup {1220}
    /\ wpc' = [wpc EXCEPT ![t] = "constructed"]
    /\ timers' = [timers EXCEPT ![t] = Append(@, "construct")]
    /\ UNCHANGED <<tc, dump, ext, impl, entry, pc, M0, M, threads, pvars, ovars, DeletedAliases, outputs>>

CompileBug(t) ==
    /\ wpc[t] = "constructed"
    /\ outputs' = [outputs EXCEPT ![0] = add_output_impl(WM[t])]
    /\ wpc' = [wpc EXCEPT ![t] = "done"]
    /\ timers' = [timers EXCEPT ![t] = Append(@, "output")]
    /\ UNCHANGED <<tc, dump, ext, impl, entry, pc, M0, M, threads, pvars, failed, ovars, WM, DeletedAliases>>

\* worker t, line 1379: compile the shard, store to its own slot
Compile(t) ==
    /\ wpc[t] = "constructed"
    /\ outputs' = [outputs EXCEPT ![t] = add_output_impl(WM[t])]
    /\ wpc' = [wpc EXCEPT ![t] = "done"]
    /\ timers' = [timers EXCEPT ![t] = Append(@, "output")]
    /\ UNCHANGED <<tc, dump, ext, impl, entry, pc, M0, M, threads, pvars, failed, ovars, WM, DeletedAliases>>

FailBug(t) ==
    /\ wpc[t] \in {"started", "stripped", "constructed"}
    /\ wpc' = [wpc EXCEPT ![t] = "done"]
    /\ UNCHANGED <<timers, tc, dump, ext, impl, entry, pc, M0, M, threads, pvars, failed, ovars, WM,
                   DeletedAliases, outputs>>

\* worker t fails: cantFail at lines 1362 and 1198, a fatal error of the backend
\* inside add_output_impl at line 1379; each ends the process
Fail(t) ==
    /\ wpc[t] \in {"started", "stripped", "constructed"}
    /\ wpc' = [wpc EXCEPT ![t] = "failed"]
    /\ pc' = "abort"
    /\ UNCHANGED <<timers, tc, dump, ext, impl, entry, M0, M, threads, pvars, failed, ovars, WM,
                   DeletedAliases, outputs>>

\* the thread of worker t; it runs while the process does
Worker(t) ==
    /\ pc = "spawn"
    /\ \/ Deserialize(t)
       \/ StripDeclarations(t)
       \/ MaterializeAll(t)
       \/ DeleteAliases(t)
       \/ ConstructVars(t)
       \/ Compile(t)
       \/ Fail(t)

JoinBug ==
    /\ pc = "spawn"
    /\ spawned = threads
    /\ joined < threads
    /\ joined' = joined + 1
    /\ UNCHANGED <<timers, tc, dump, ext, impl, entry, pc, M0, M, threads, pvars, failed, serialized, released,
                   spawned, wvars>>

\* add_output, lines 1384-1385: join the workers in turn
Join ==
    /\ pc = "spawn"
    /\ spawned = threads
    /\ joined < threads
    /\ wpc[joined] = "done"
    /\ joined' = joined + 1
    /\ UNCHANGED <<timers, tc, dump, ext, impl, entry, pc, M0, M, threads, pvars, failed, serialized, released, spawned,
                   wvars>>

\* add_output, lines 1388-1408: return the outputs
Return ==
    /\ pc = "spawn"
    /\ joined = threads
    /\ pc' = "done"
    /\ UNCHANGED <<timers, tc, dump, ext, impl, entry, M0, M, threads, pvars, failed, ovars, wvars>>

Next ==
    \/ CompileSingle
    \/ ReleaseSingle
    \/ NameDefinitions
    \/ MakeNodes
    \/ MergeUses
    \/ SortNodes
    \/ Assign
    \/ Verify
    \/ Serialize
    \/ Release
    \/ Spawn
    \/ \E t \in 0..(threads - 1) : Worker(t)
    \/ Join
    \/ Return

vars == <<timers, tc, dump, ext, impl, entry, pc, M0, M, threads, pvars, failed, ovars, wvars>>

Spec == Init /\ [][Next]_vars

NextPartition ==
    \/ MakeNodes
    \/ MergeUses
    \/ SortNodes
    \/ Assign
    \/ Verify

SpecPartition == InitPartition /\ [][NextPartition]_vars

SpecVerify == InitVerify /\ [][NextPartition]_vars

\* jl_dump_native_impl, line 1617
ComputeThreads ==
    /\ entry = "compute_image_thread_count"
    /\ ~tc.called
    /\ LET r == compute_image_thread_count(tc.info, tc.ceiling, tc.P32, tc.cpu,
                                           tc.env_threads, tc.fallbackenv)
       IN  tc' = [tc EXCEPT !.called = TRUE, !.threads = r.threads,
                            !.warnings = r.warnings]
    /\ UNCHANGED <<timers, dump, ext, impl, entry, pc, M0, M, threads, pvars, failed, ovars, wvars>>

NextThreads == ComputeThreads

SpecThreads == InitThreads /\ [][NextThreads]_vars

\* jl_dump_native_impl is called
InitDump ==
    /\ Start("jl_dump_native_impl", {<<ScenarioModule, 1>>})
    /\ tc = NoCall
    /\ dump \in DumpInputs
    /\ ext = NoCall
    /\ impl = NoCall

DumpStep(d) ==
    /\ entry = "jl_dump_native_impl"
    /\ dump' = d
    /\ UNCHANGED <<timers, tc, ext, impl, entry, pc, M0, M, threads, pvars, failed, ovars, wvars>>

\* lines 1486-1490: no output requested
DumpNothing ==
    /\ dump.pc = "entry"
    /\ ~dump.bc_fname /\ ~dump.unopt_bc_fname /\ ~dump.obj_fname /\ ~dump.asm_fname
    /\ DumpStep([dump EXCEPT !.pc = "returned"])

\* lines 1541-1568: the module of the system image data, compiled with one thread
DumpSysimg ==
    /\ dump.pc = "entry"
    /\ dump.bc_fname \/ dump.unopt_bc_fname \/ dump.obj_fname \/ dump.asm_fname
    /\ DumpStep([dump EXCEPT
                    !.sysimg_outputs = IF dump.z THEN compile("sysimg", 1, dump) ELSE @,
                    !.pc = "setup"])

\* lines 1572-1653: threads is 1, or what compute_image_thread_count returns
DumpSetup ==
    /\ dump.pc = "setup"
    /\ DumpStep([dump EXCEPT
                    !.threads = IF dump.imaging_mode THEN dump.count ELSE 1,
                    !.pc = "text"])

\* line 1663
DumpText ==
    /\ dump.pc = "text"
    /\ DumpStep([dump EXCEPT !.data_outputs = compile("text", dump.threads, dump),
                             !.pc = "metadata"])

\* lines 1666-1751
DumpMetadata ==
    /\ dump.pc = "metadata"
    /\ DumpStep([dump EXCEPT
                    !.metadata_outputs =
                        IF dump.emit_metadata THEN compile("data", 1, dump) ELSE @,
                    !.pc = "write_unopt"])

\* WRITE_ARCHIVE(fname, field, prefix, suffix), lines 1757-1776. The read of
\* metadata_outputs[0] of a vector without elements stops the process (the
\* assertion of SmallVector) or gives what the memory holds; an error of
\* writeArchive is reported and the function goes on.
WriteArchive(at, fname, field, prefix, suffix, next) ==
    /\ dump.pc = at
    /\ IF ~dump[fname] THEN DumpStep([dump EXCEPT !.pc = next])
       ELSE \/ /\ dump.metadata_outputs = EmptyArr
               /\ DumpStep([dump EXCEPT !.pc = "abort"])
            \/ \E meta \in IF dump.metadata_outputs = EmptyArr THEN Uninitialized
                           ELSE {dump.metadata_outputs[0][field]} :
                  \/ DumpStep([dump EXCEPT
                        !.archives = Append(@,
                            [fname |-> fname,
                             members |-> ArchiveMembers(dump, field, prefix, suffix, meta)]),
                        !.pc = next])
                  \/ DumpStep([dump EXCEPT !.errors = Append(@, fname), !.pc = next])

\* lines 1778-1781
WriteUnopt == WriteArchive("write_unopt", "unopt_bc_fname", "unopt", "_unopt", ".bc", "write_opt")
WriteOpt == WriteArchive("write_opt", "bc_fname", "opt", "_opt", ".bc", "write_obj")
WriteObj == WriteArchive("write_obj", "obj_fname", "obj", "", ".o", "write_asm")
WriteAsm == WriteArchive("write_asm", "asm_fname", "asm_", "", ".s", "returned")

NextDump ==
    \/ DumpNothing
    \/ DumpSysimg
    \/ DumpSetup
    \/ DumpText
    \/ DumpMetadata
    \/ WriteUnopt
    \/ WriteOpt
    \/ WriteObj
    \/ WriteAsm

SpecDump == InitDump /\ [][NextDump]_vars

\* get_fvars_gvars is called on a module
InitExtract ==
    /\ Start("get_fvars_gvars", {<<ScenarioModule, 2>>})
    /\ tc = NoCall
    /\ dump = NoCall
    /\ ext \in ExtractInputs
    /\ impl = NoCall

\* partitionModule, line 788: the call of get_fvars_gvars
Extract ==
    /\ entry = "get_fvars_gvars"
    /\ ext.pc = "called"
    /\ ext' \in get_fvars_gvars(ext)
    /\ UNCHANGED <<timers, tc, dump, impl, entry, pc, M0, M, threads, pvars, failed, ovars, wvars>>

NextExtract == Extract

SpecExtract == InitExtract /\ [][NextExtract]_vars

\* ------------------------------------------------- add_output_impl, in steps
\* AOTOutputs out of line 995
NoBuffers == [unopt |-> EmptyBuffer, opt |-> EmptyBuffer, obj |-> EmptyBuffer, asm_ |-> EmptyBuffer]

\* two definitions that can be partitioned, unconnected: one for each shard
OutputModules ==
    {m \in GraphModules :
        /\ Len(m.gvs) = 2 /\ NumEdges(m) = 0
        /\ \A g \in DOMAIN m.gvs : ~isDeclaration(m.gvs[g]) /\ canPartition(m.gvs[g])
        /\ \A g \in DOMAIN m.gvs : m.gvs[g].kind # "GlobalAlias"}

\* the outputs asked for: not none (the assertion of line 1275)
OutputInputs ==
    {f \in [unopt : BOOLEAN, opt : BOOLEAN, obj : BOOLEAN, asm_ : BOOLEAN,
            out : {[t \in 0..(MaxWorkers - 1) |-> NoBuffers]},
            optimized : {[t \in 0..(MaxWorkers - 1) |-> FALSE]},
            errors : {[t \in 0..(MaxWorkers - 1) |-> <<>>]}] :
        f.unopt \/ f.opt \/ f.obj \/ f.asm_}

\* add_output is called with more than one thread and the outputs asked for
InitOutput ==
    /\ Start("add_output", OutputModules \X {MaxWorkers})
    /\ tc = NoCall
    /\ dump = NoCall
    /\ ext = NoCall
    /\ impl \in OutputInputs

\* a step of worker t inside add_output_impl
ImplStep(t, at, next, timer, out, optimized, errors) ==
    /\ wpc[t] = at
    /\ wpc' = [wpc EXCEPT ![t] = next]
    /\ timers' = [timers EXCEPT ![t] = @ \o timer]
    /\ impl' = [impl EXCEPT !.out[t] = out, !.optimized[t] = optimized,
                            !.errors[t] = @ \o errors]
    /\ UNCHANGED <<tc, dump, ext, entry, pc, M0, M, threads, pvars, failed, ovars, WM,
                   DeletedAliases, outputs>>

\* the bytes of one kind written from the module of worker t as it is now
Emitted(t, kind) == <<kind, IF impl.optimized[t] THEN "optimized" ELSE "unoptimized">>

ImplUnoptBug(t) ==
    IF impl.unopt
    THEN ImplStep(t, "constructed", "line 1016", <<"unopt">>,
                  [impl.out[t] EXCEPT !.unopt = <<"unopt", "optimized">>], TRUE, <<>>)
    ELSE ImplStep(t, "constructed", "line 1016", <<>>, impl.out[t], impl.optimized[t], <<>>)

\* lines 1006-1015: the bitcode of the module before the optimizer
ImplUnopt(t) ==
    IF impl.unopt
    THEN ImplStep(t, "constructed", "line 1016", <<"unopt">>,
                  [impl.out[t] EXCEPT !.unopt = Emitted(t, "unopt")], impl.optimized[t], <<>>)
    ELSE ImplStep(t, "constructed", "line 1016", <<>>, impl.out[t], impl.optimized[t], <<>>)

ImplReturnUnoptBug(t) ==
    ImplStep(t, "line 1016", "line 1109", <<>>, impl.out[t], impl.optimized[t], <<>>)

\* lines 1016-1018: nothing else was asked for
ImplReturnUnopt(t) ==
    /\ ~impl.opt /\ ~impl.obj /\ ~impl.asm_
    /\ ImplStep(t, "line 1016", "line 1109", <<>>, impl.out[t], impl.optimized[t], <<>>)

\* lines 1019-1074: the optimizer
ImplOptimize(t) ==
    /\ impl.opt \/ impl.obj \/ impl.asm_
    /\ ImplStep(t, "line 1016", "line 1076", <<"optimize">>, impl.out[t], TRUE, <<>>)

\* lines 1076-1085: the bitcode of the optimized module
ImplOpt(t) ==
    IF impl.opt
    THEN ImplStep(t, "line 1076", "line 1087", <<"opt">>,
                  [impl.out[t] EXCEPT !.opt = Emitted(t, "opt")], impl.optimized[t], <<>>)
    ELSE ImplStep(t, "line 1076", "line 1087", <<>>, impl.out[t], impl.optimized[t], <<>>)

ImplObjBug(t) ==
    IF impl.obj
    THEN \/ ImplStep(t, "line 1087", "line 1098", <<"obj">>,
                     [impl.out[t] EXCEPT !.obj = Emitted(t, "obj")], impl.optimized[t], <<>>)
         \/ ImplStep(t, "line 1087", "line 1109", <<"obj">>, impl.out[t], impl.optimized[t],
                     <<"ERROR: target does not support generation of object files">>)
    ELSE ImplStep(t, "line 1087", "line 1098", <<>>, impl.out[t], impl.optimized[t], <<>>)

\* lines 1087-1096: the object file; a target that cannot emit one gives an
\* error message and no bytes
ImplObj(t) ==
    IF impl.obj
    THEN \/ ImplStep(t, "line 1087", "line 1098", <<"obj">>,
                     [impl.out[t] EXCEPT !.obj = Emitted(t, "obj")], impl.optimized[t], <<>>)
         \/ ImplStep(t, "line 1087", "line 1098", <<"obj">>, impl.out[t], impl.optimized[t],
                     <<"ERROR: target does not support generation of object files">>)
    ELSE ImplStep(t, "line 1087", "line 1098", <<>>, impl.out[t], impl.optimized[t], <<>>)

\* lines 1098-1107: the assembly file, in the same way
ImplAsm(t) ==
    IF impl.asm_
    THEN \/ ImplStep(t, "line 1098", "line 1109", <<"asm_">>,
                     [impl.out[t] EXCEPT !.asm_ = Emitted(t, "asm_")], impl.optimized[t], <<>>)
         \/ ImplStep(t, "line 1098", "line 1109", <<"asm_">>, impl.out[t], impl.optimized[t],
                     <<"ERROR: target does not support generation of assembly files">>)
    ELSE ImplStep(t, "line 1098", "line 1109", <<>>, impl.out[t], impl.optimized[t], <<>>)

\* lines 1109 and 1379: return out, which is stored to outputs[t]
ImplReturn(t) ==
    /\ wpc[t] = "line 1109"
    /\ outputs' = [outputs EXCEPT ![t] = [compiled |-> TRUE, module |-> WM[t],
                                          buffers |-> impl.out[t]]]
    /\ wpc' = [wpc EXCEPT ![t] = "done"]
    /\ UNCHANGED <<timers, tc, dump, ext, impl, entry, pc, M0, M, threads, pvars, failed, ovars,
                   WM, DeletedAliases>>

\* the thread of worker t, add_output_impl taken step by step
WorkerOutput(t) ==
    /\ pc = "spawn"
    /\ \/ Deserialize(t)
       \/ StripDeclarations(t)
       \/ MaterializeAll(t)
       \/ DeleteAliases(t)
       \/ ConstructVars(t)
       \/ ImplUnopt(t)
       \/ ImplReturnUnopt(t)
       \/ ImplOptimize(t)
       \/ ImplOpt(t)
       \/ ImplObj(t)
       \/ ImplAsm(t)
       \/ ImplReturn(t)
       \/ Fail(t)

NextOutput ==
    \/ NameDefinitions
    \/ MakeNodes
    \/ MergeUses
    \/ SortNodes
    \/ Assign
    \/ Verify
    \/ Serialize
    \/ Release
    \/ Spawn
    \/ \E t \in 0..(threads - 1) : WorkerOutput(t)
    \/ Join
    \/ Return

SpecOutput == InitOutput /\ [][NextOutput]_vars

\* ===================================================================== claims
\* the module that add_output works on: M until it is serialized and released,
\* the content of the serialized buffer from then on
Unit == IF serialized = <<>> THEN M ELSE serialized.bitcode

\* partitionModule has returned
Partitioned ==
    /\ pc \in {"partitioned", "serialized", "spawn", "done"}
    /\ (entry = "partitionModule" \/ threads > 1)

\* the definitions of the input module that partitionModule has to place
Partitionable(gvs) ==
    {g \in DOMAIN gvs : ~isDeclaration(gvs[g]) /\ canPartition(gvs[g])}

\* the weight of one global value of the input module
Weight0(g) ==
    IF M0.gvs[g].kind = "Function" THEN getFunctionWeight(M0.gvs[g]).weight ELSE 1

RECURSIVE SumWeight0(_)
SumWeight0(S) ==
    IF S = {} THEN 0
    ELSE LET g == CHOOSE x \in S : TRUE IN Weight0(g) + SumWeight0(S \ {g})

\* A references B through a constant operand, in one direction or the other
Linked(a, b) == b \in M0.gvs[a].operands \/ a \in M0.gvs[b].operands

RECURSIVE Closure(_)
Closure(S) ==
    LET T == S \cup {b \in Partitionable(M0.gvs) : \E a \in S : Linked(a, b)}
    IN  IF T = S THEN S ELSE Closure(T)

\* the connected components of the reference graph of the input module
Components == {Closure({g}) : g \in Partitionable(M0.gvs)}

\* the names a set of global values has in the module that was partitioned
NamesOf(S) == {Unit.gvs[g].name : g \in S}

ShardOf(g) ==
    CHOOSE k \in DOMAIN partitions : Unit.gvs[g].name \in DOMAIN partitions[k].globals

\* C1: after partition, every definition that can be partitioned is in the
\* symbol set of exactly one shard, and the symbol sets of the threads shards
\* hold nothing else (no declaration, no alwaysinline function).
C1_ExactCover ==
    Partitioned =>
        /\ DOMAIN partitions = 0..(threads - 1)
        /\ \A g \in Partitionable(M0.gvs) :
               Cardinality(Owners(partitions, Unit.gvs[g].name)) = 1
        /\ \A k \in DOMAIN partitions :
               DOMAIN partitions[k].globals \subseteq NamesOf(Partitionable(M0.gvs))

C1_Witness ==
    /\ Partitioned
    /\ threads >= 2
    /\ \E x \in DOMAIN M0.gvs :
          isDeclaration(M0.gvs[x]) \/ M0.gvs[x].alwaysinline
    /\ \A k \in DOMAIN partitions : partitions[k].globals # EmptyArr

C8_Balance ==
    Partitioned /\ Components # {} =>
        SetMax({partitions[k].weight : k \in DOMAIN partitions})
          - SetMin({partitions[k].weight : k \in DOMAIN partitions})
            <= SetMax({SumWeight0(c) : c \in Components})

C8_Witness ==
    /\ Partitioned
    /\ M0 = ScenarioModule
    /\ threads = 2
    /\ {partitions[k].weight : k \in DOMAIN partitions} = {100, 9}

\* the weight of the heaviest shard when component c goes to shard f[c]
Makespan(f) ==
    SetMax({SumWeight0(UNION {c \in Components : f[c] = k}) : k \in 0..(threads - 1)})

OptimalMakespan == SetMin({Makespan(f) : f \in [Components -> 0..(threads - 1)]})

Load(k) ==
    SumWeight0({g \in DOMAIN Unit.gvs : Unit.gvs[g].name \in DOMAIN partitions[k].globals})

\* C9: the weight of the heaviest shard is at most 4/3 of the smallest
\* heaviest-shard weight that any assignment of whole components reaches.
C9_LPTBound ==
    Partitioned =>
        3 * SetMax({Load(k) : k \in DOMAIN partitions}) <= 4 * OptimalMakespan

C9_Witness ==
    /\ Partitioned
    /\ SetMax({Load(k) : k \in DOMAIN partitions}) > OptimalMakespan

\* ---------------------------------------------------------------- the pipeline
\* worker t has left materializePreserved
Materialized(t) == wpc[t] \in {"preserved", "constructed", "done"}

AllMaterialized == threads > 1 /\ \A t \in DOMAIN wpc : Materialized(t)

\* worker t has left construct_vars
Constructed(t) == wpc[t] \in {"constructed", "done"}

\* The result of partitionModule as a function of the module and of threads:
\* the merge loop and the assignment loop, run to their ends
RECURSIVE MergeFrom(_, _, _)
MergeFrom(ns, k, gvs) ==
    IF k >= ALen(ns) THEN ns
    ELSE MergeFrom(MergeUsers(ns, k, ConstantUses(ns[k].GV, gvs)), k + 1, gvs)

RECURSIVE AssignFrom(_, _, _, _, _, _, _, _)
AssignFrom(ns, parts, h, ix, k, gvs, fv, gv) ==
    IF k >= ALen(ix) THEN parts
    ELSE LET r == AssignNode(ns, parts, h, ix[k], gvs, fv, gv)
         IN  AssignFrom(r.nodes, r.partitions, r.pq, ix, k + 1, gvs, fv, gv)

PartitionOf(Mod, T) ==
    LET gvs == Externalize(NameGlobals(Mod.gvs, 1, 0))
        ns == MergeFrom(MakeAll(gvs, 1, EmptyArr), 0, gvs)
        parts0 == [k \in 0..(T - 1) |-> EmptyPartition]
    IN  AssignFrom(ns, parts0, PqInit(EmptyArr, 0, parts0),
                   Arr(SortByWeight(ns, DOMAIN ns)), 0, gvs,
                   TableMap(Mod.jl_fvars), TableMap(Mod.jl_gvars))

\* the sub-table of a shard, in the order of the flat ids: <<flat id, name>>
RECURSIVE TableOfShard(_)
TableOfShard(tab) ==
    IF DOMAIN tab = {} THEN <<>>
    ELSE LET n == CHOOSE x \in DOMAIN tab : \A y \in DOMAIN tab : tab[x] <= tab[y]
         IN  <<<<tab[n], n>>>> \o TableOfShard([y \in (DOMAIN tab) \ {n} |-> tab[y]])

\* the table that construct_vars has written, as <<flat id, name>>
WrittenTable(gvs, syms, ids) ==
    [k \in 1..Len(ids) |->
        <<ids[k], IF syms[k] \in DOMAIN gvs THEN gvs[syms[k]].name ELSE <<"null">>>>]

\* C4: the partitions, and after construct_vars the two tables of every shard,
\* are the values of a function of the module handed in and of threads,
\* whatever the order in which the workers run and in which the maps of names
\* hand out their keys.
C4_Deterministic ==
    /\ Partitioned => partitions = PartitionOf(M0, threads)
    /\ \A t \in DOMAIN wpc :
          Constructed(t) =>
              /\ WrittenTable(WM[t].gvs, WM[t].jl_fvars, WM[t].jl_fvar_idxs)
                   = TableOfShard(PartitionOf(M0, threads)[t].fvars)
              /\ WrittenTable(WM[t].gvs, WM[t].jl_gvars, WM[t].jl_gvar_idxs)
                   = TableOfShard(PartitionOf(M0, threads)[t].gvars)
    /\ \A t \in DOMAIN wpc :
          wpc[t] = "done" => outputs[t] = add_output_impl(WM[t])

C4_Witness ==
    /\ pc = "done"
    /\ threads = 2
    /\ \E t \in DOMAIN wpc : Cardinality(DOMAIN partitions[t].fvars) >= 2
    /\ \E t \in DOMAIN wpc : partitions[t].gvars # EmptyArr

\* the value that carries a name in the module of worker t
ValueIn(t, name) == CHOOSE g \in getNamedValue(WM[t].gvs, name) : TRUE

DefinedIn(t, name) ==
    \E g \in getNamedValue(WM[t].gvs, name) : ~isDeclaration(WM[t].gvs[g])

DeclaredIn(t, name) ==
    /\ Cardinality(getNamedValue(WM[t].gvs, name)) = 1
    /\ LET G == WM[t].gvs[ValueIn(t, name)]
       IN  /\ G.kind \in {"Function", "GlobalVariable"}
           /\ isDeclaration(G)
           /\ G.insts = 0 /\ G.bbs = 0 /\ G.operands = {} /\ G.uses = {}

\* the names a set of values of the module of worker t has, a value that is
\* not there taken for dangling
NamesIn(t, S) ==
    {IF g \in DOMAIN WM[t].gvs THEN WM[t].gvs[g].name ELSE <<"dangling">> : g \in S}

\* the definition of name of g in the module of worker t is the one of the
\* module that was serialized
SameBody(t, g) ==
    LET G == WM[t].gvs[ValueIn(t, Unit.gvs[g].name)]
        O == Unit.gvs[g]
    IN  /\ G.kind = O.kind
        /\ G.insts = O.insts /\ G.bbs = O.bbs /\ G.clones = O.clones
        /\ NamesIn(t, G.operands) = NamesOf(O.operands)
        /\ NamesIn(t, G.uses) = NamesOf(O.uses)

\* C5: with more than one thread, when every worker has materialized its
\* shard of the one serialized module, each definition that can be partitioned
\* is a definition, with the body it had, in exactly one shard, the one that
\* preserves it, and a declaration without body in every other shard; the
\* preserved definitions of all shards together are these definitions.
C5_RoundTrip ==
    AllMaterialized =>
        /\ \A g \in Partitionable(M0.gvs) :
              LET name == Unit.gvs[g].name
              IN  /\ Cardinality({t \in DOMAIN wpc : DefinedIn(t, name)}) = 1
                  /\ \A t \in DOMAIN wpc :
                        IF name \in DOMAIN partitions[t].globals
                        THEN DefinedIn(t, name) /\ SameBody(t, g)
                        ELSE DeclaredIn(t, name)
        /\ UNION {{n \in DOMAIN partitions[t].globals : DefinedIn(t, n)} : t \in DOMAIN wpc}
             = NamesOf(Partitionable(M0.gvs))

C5_Witness ==
    /\ AllMaterialized
    /\ \A t \in DOMAIN wpc : wpc[t] = "preserved"
    /\ \A t \in DOMAIN wpc : partitions[t].globals # EmptyArr
    /\ \E g \in Partitionable(M0.gvs) : M0.gvs[g].operands \cup M0.gvs[g].uses # {}

\* the function or variable an alias stands for
RECURSIVE Target(_, _)
Target(gvs, g) ==
    IF gvs[g].kind = "GlobalAlias" /\ gvs[g].operands # {}
    THEN Target(gvs, CHOOSE o \in gvs[g].operands : TRUE)
    ELSE g

\* the aliases of the serialized module whose target is a function that the
\* module of worker t holds without its body
AliasesOfStripped(t) ==
    {a \in DOMAIN Unit.gvs :
        /\ Unit.gvs[a].kind = "GlobalAlias"
        /\ Unit.gvs[Target(Unit.gvs, a)].kind = "Function"
        /\ ~isDeclaration(Unit.gvs[Target(Unit.gvs, a)])
        /\ isDeclaration(WM[t].gvs[Target(Unit.gvs, a)])}

\* the definitions of the module of worker t that used alias a when serialized
UsersOf(t, a) ==
    {u \in (DOMAIN Unit.gvs) \cap (DOMAIN WM[t].gvs) :
        /\ u # a
        /\ a \in Unit.gvs[u].operands \cup Unit.gvs[u].uses
        /\ ~isDeclaration(WM[t].gvs[u])}

\* C6: after materializePreserved for a shard, for every alias whose target
\* function the shard holds stripped: the alias is gone, its name is carried
\* by one declaration of a function, without body, no value refers to the
\* alias any more, and every definition that used the alias uses that
\* declaration.
C6_AliasToDeclaration ==
    \A t \in DOMAIN wpc :
        threads > 1 /\ Materialized(t) =>
            \A a \in AliasesOfStripped(t) :
                /\ a \notin DOMAIN WM[t].gvs
                /\ DeclaredIn(t, Unit.gvs[a].name)
                /\ WM[t].gvs[ValueIn(t, Unit.gvs[a].name)].kind = "Function"
                /\ \A u \in DOMAIN WM[t].gvs :
                      a \notin WM[t].gvs[u].operands \cup WM[t].gvs[u].uses
                /\ \A u \in UsersOf(t, a) :
                      ValueIn(t, Unit.gvs[a].name)
                          \in WM[t].gvs[u].operands \cup WM[t].gvs[u].uses

C6_Witness ==
    \E t \in DOMAIN wpc :
        /\ threads > 1
        /\ Materialized(t)
        /\ \E a \in AliasesOfStripped(t) :
              \E u \in UsersOf(t, a) : a \in Unit.gvs[u].uses

\* What the linker makes of the modules mods[0], mods[1], ...: the names that
\* are defined, the names with more than one definition that is not local,
\* and what every flat id and every reference of a definition is bound to
Exported(Mod) ==
    {Mod.gvs[g].name : g \in {h \in DOMAIN Mod.gvs :
                                ~Mod.gvs[h].decl /\ ~hasLocalLinkage(Mod.gvs[h])}}

Bound(mods, t, r) ==
    IF r \notin DOMAIN mods[t].gvs THEN <<"dangling">>
    ELSE LET G == mods[t].gvs[r]
         IN  IF ~G.decl \/ \E k \in DOMAIN mods : G.name \in Exported(mods[k])
             THEN <<"defined", G.name>>
             ELSE <<"undefined", G.name>>

TableBindings(mods, t, syms, ids) ==
    {<<ids[k], Bound(mods, t, syms[k])>> : k \in 1..Len(ids)}

Linkage(mods) ==
    [defined |->
        UNION {{mods[t].gvs[g].name :
                  g \in {h \in DOMAIN mods[t].gvs : ~mods[t].gvs[h].decl}} : t \in DOMAIN mods},
     twice |->
        {n \in UNION {Exported(mods[t]) : t \in DOMAIN mods} :
            Cardinality({t \in DOMAIN mods : n \in Exported(mods[t])}) > 1},
     fvars |->
        UNION {TableBindings(mods, t, mods[t].jl_fvars, mods[t].jl_fvar_idxs) : t \in DOMAIN mods},
     gvars |->
        UNION {TableBindings(mods, t, mods[t].jl_gvars, mods[t].jl_gvar_idxs) : t \in DOMAIN mods},
     refs |->
        UNION {UNION {{<<mods[t].gvs[g].name, Bound(mods, t, r)>> :
                         r \in mods[t].gvs[g].operands \cup mods[t].gvs[g].uses} :
                      g \in {h \in DOMAIN mods[t].gvs : ~mods[t].gvs[h].decl}} :
               t \in DOMAIN mods}]

\* a module with its definitions without name under the names "jl_ext_" and a
\* counter, the names they get before a module is partitioned
WithNames(Mod) == [Mod EXCEPT !.gvs = NameGlobals(Mod.gvs, 1, 0)]

\* C7: the outputs of add_output, linked, define the same names, and bind every
\* flat id and every reference of a definition to the same name, as the one
\* output that add_output gives for the same module with one thread (which is
\* the module as handed in).
C7_LinkageEquivalent ==
    pc = "done" =>
        Linkage(IF threads = 1 THEN [t \in {0} |-> WithNames(outputs[0].module)]
                ELSE [t \in DOMAIN outputs |-> outputs[t].module])
          = Linkage([t \in {0} |-> WithNames(M0)])

\* C10: with the number of globals, the weight, the cpu threads and the two
\* environment variables as they are, the number of threads returned is not
\* more than the number returned for any higher ceiling.
C10_MonotonicInCeiling ==
    tc # NoCall /\ tc.called =>
        \A higher \in (tc.ceiling + 1)..(COFFSymbolLimit + MaxRaise + 1) :
            tc.threads <= compute_image_thread_count(tc.info, higher, tc.P32, tc.cpu,
                                                     tc.env_threads, tc.fallbackenv).threads

C10_Witness ==
    /\ tc # NoCall /\ tc.called
    /\ tc.info.coff /\ tc.info.globals > tc.ceiling
    /\ tc.threads = 1
    /\ compute_image_thread_count(tc.info, tc.ceiling + 1, tc.P32, tc.cpu,
                                  tc.env_threads, tc.fallbackenv).threads > 1

\* ------------------------------------------------------------ the fan-out
\* the definitions that shard t was given, as its output defines them
DefinedBy(Mod) ==
    {Mod.gvs[g].name :
        g \in {h \in DOMAIN Mod.gvs :
                 ~Mod.gvs[h].decl /\ Mod.gvs[h].name \in NamesOf(Partitionable(M0.gvs))}}

\* C17: with one thread every step of add_output leaves the module as it was
\* handed in (no name given), the tables, the nodes, the partitions, the
\* serialized buffer and the workers untouched; the output is written in one
\* step, by add_output itself, from the module as handed in, and is there at the
\* return.
C17_SingleBypass ==
    [][threads = 1 =>
          /\ (released' = 0 => M' = M0)
          /\ fvars' = EmptyArr /\ gvars' = EmptyArr /\ nodes' = EmptyArr
          /\ partitions' = EmptyArr /\ serialized' = <<>>
          /\ spawned' = 0 /\ wpc' = [t \in {0} |-> "idle"] /\ WM' = WM
          /\ (outputs' # outputs =>
                /\ pc = "add_output" /\ pc' = "compiled"
                /\ outputs = [t \in {0} |-> NoOutput]
                /\ outputs' = [t \in {0} |-> add_output_impl(M0)])
          /\ (pc = "add_output" => pc' = "compiled" /\ outputs' # outputs)
          /\ (pc' = "add_output" => pc = "add_output")
          /\ (pc' = "done" => outputs' = [t \in {0} |-> add_output_impl(M0)])]_vars

C17_Witness ==
    /\ pc = "done"
    /\ threads = 1
    /\ \E g \in DOMAIN M0.gvs : ~isDeclaration(M0.gvs[g]) /\ M0.gvs[g].name = <<>>
    /\ M0.jl_fvars # <<>>
    /\ outputs[0] = add_output_impl(M0)

\* C18: with more than one thread the workers started are those of the shards
\* 0..spawned-1, never more than threads; at the return all threads workers
\* were started and joined, each is done, and output i is the output of the
\* module of worker i, which carries the suffix of i and defines what
\* partition i names (nothing, for a partition without names).
C18_AllWorkersJoined ==
    threads > 1 =>
        /\ spawned <= threads /\ joined <= spawned
        /\ \A t \in DOMAIN wpc : wpc[t] # "idle" <=> t < spawned
        /\ pc = "done" =>
              /\ spawned = threads /\ joined = threads
              /\ \A t \in 0..(threads - 1) :
                    /\ wpc[t] = "done"
                    /\ outputs[t] = add_output_impl(WM[t])
                    /\ outputs[t].module.suffix = <<"_", t>>
                    /\ DefinedBy(outputs[t].module) = DOMAIN partitions[t].globals

C18_Witness ==
    /\ pc = "done"
    /\ threads = 2
    /\ \E t \in DOMAIN partitions : partitions[t].globals = EmptyArr
    /\ \E t \in DOMAIN partitions : partitions[t].globals # EmptyArr

\* C19: a step of worker t leaves the serialized buffer, the partitions and the
\* module of add_output as they are, and writes no output, no timers, no module
\* and no state of another worker; what worker t has materialized and
\* constructed is the shard of partition t.
C19_WorkersIsolated ==
    [][\A t \in DOMAIN wpc :
          wpc[t] # "idle" /\ wpc'[t] # wpc[t] =>
              /\ serialized' = serialized /\ partitions' = partitions /\ M' = M
              /\ \A u \in (DOMAIN wpc) \ {t} :
                    /\ outputs'[u] = outputs[u]
                    /\ timers'[u] = timers[u]
                    /\ WM'[u] = WM[u]
                    /\ DeletedAliases'[u] = DeletedAliases[u]
                    /\ wpc'[u] = wpc[u]
              /\ wpc'[t] \in {"preserved", "constructed", "done"} =>
                    DefinedBy(WM'[t]) = DOMAIN partitions[t].globals
              /\ wpc'[t] = "done" => outputs'[t] = add_output_impl(WM'[t])]_vars

C19_Witness ==
    /\ threads = 2
    /\ wpc[0] = "constructed" /\ wpc[1] = "done"
    /\ outputs[0] = NoOutput /\ outputs[1] # NoOutput
    /\ partitions[0].globals # EmptyArr /\ partitions[1].globals # EmptyArr

Called == tc # NoCall /\ tc.called

\* the module is not forced to one thread
NotForced ==
    /\ ~tc.P32
    /\ tc.info.weight >= SmallModuleWeight
    /\ ~(tc.info.coff /\ tc.info.globals > tc.ceiling)

\* a value of an environment variable that strtoul reads as a number above 0
WellFormed(e) == e.set /\ ~Invalid(strtoul(e.str))
Malformed(e) == e.set /\ Invalid(strtoul(e.str))

\* what is returned when JULIA_IMAGE_THREADS has the value e
WithExplicit(e) ==
    compute_image_thread_count(tc.info, tc.ceiling, tc.P32, tc.cpu, e, tc.fallbackenv)

\* what is returned when JULIA_CPU_THREADS has the value e
WithFallback(e) ==
    compute_image_thread_count(tc.info, tc.ceiling, tc.P32, tc.cpu, tc.env_threads, e)

Warned(name, e) == \E k \in 1..Len(tc.warnings) : tc.warnings[k] = <<name, e.str>>

\* C11: the number of threads returned is at least 1, for every weight, every
\* number of globals (below 100 too), every number of cpu threads and every
\* value of the two environment variables.
C11_AtLeastOne == Called => tc.threads >= 1

C11_Witness ==
    /\ Called /\ NotForced
    /\ tc.info.globals < GlobalsPerThread
    /\ ~WellFormed(tc.env_threads)
    /\ tc.threads = 1

\* C12: a weight below 1000, or COFF with more globals than the ceiling
\* (64000), gives exactly 1 thread, whatever the cpu threads and the two
\* environment variables.
C12_ForcedSingle ==
    Called /\ (\/ tc.info.weight < SmallModuleWeight
               \/ tc.info.coff /\ tc.info.globals > tc.ceiling)
        => tc.threads = 1

C12_Witness ==
    /\ Called
    /\ ~tc.P32
    /\ tc.info.weight < SmallModuleWeight
    /\ ~(tc.info.coff /\ tc.info.globals > tc.ceiling)
    /\ tc.cpu >= 4 /\ tc.info.globals >= 2 * GlobalsPerThread
    /\ WellFormed(tc.env_threads)
    /\ ~ULongIs(strtoul(tc.env_threads.str).value, 1)
    /\ tc.threads = 1

\* an explicit override is applied: the module is not forced to one thread and
\* JULIA_IMAGE_THREADS is well-formed
ExplicitApplied == NotForced /\ WellFormed(tc.env_threads)

\* C13 as stated: without an explicit override applied, the number of globals
\* divided by 100 is at least the number of threads returned.
C13_Capped ==
    Called /\ ~ExplicitApplied => tc.info.globals \div GlobalsPerThread >= tc.threads

\* C13, amended: without an explicit override applied, the number of threads
\* returned is at most the number of globals divided by 100, or 1 where that
\* quotient is 0.
C13_CappedOrOne ==
    Called /\ ~ExplicitApplied =>
        tc.threads <= Max(tc.info.globals \div GlobalsPerThread, 1)

C13_Witness ==
    /\ Called /\ NotForced /\ ~ExplicitApplied
    /\ tc.info.globals \div GlobalsPerThread < tc.cpu \div 2
    /\ tc.threads = tc.info.globals \div GlobalsPerThread
    /\ tc.threads >= 2

\* C14: when the module is not forced to one thread and JULIA_IMAGE_THREADS is
\* a well-formed number n above 0, n is returned, and JULIA_CPU_THREADS is not
\* read (no warning about it, the same result as without it).
C14_ExplicitExact ==
    Called /\ NotForced /\ WellFormed(tc.env_threads) =>
        /\ ULongIs(strtoul(tc.env_threads.str).value, tc.threads)
        /\ tc.threads = WithFallback(NoEnv).threads
        /\ ~Warned("JULIA_CPU_THREADS", tc.fallbackenv)

\* C15 as stated: a malformed value of either variable is warned about and
\* ignored.
C15_MalformedWarnedIgnored ==
    Called =>
        /\ Malformed(tc.env_threads) =>
              /\ tc.threads = WithExplicit(NoEnv).threads
              /\ Warned("JULIA_IMAGE_THREADS", tc.env_threads)
        /\ Malformed(tc.fallbackenv) =>
              /\ tc.threads = WithFallback(NoEnv).threads
              /\ Warned("JULIA_CPU_THREADS", tc.fallbackenv)

\* C15, amended: a malformed value of either variable is ignored (the number
\* returned is the one returned without the variable); it is warned about
\* exactly when it is read: JULIA_IMAGE_THREADS when the module is not forced
\* to one thread, JULIA_CPU_THREADS when moreover no explicit override is
\* applied and the number of threads before it is above 1.
C15_MalformedIgnored ==
    Called =>
        /\ Malformed(tc.env_threads) =>
              /\ tc.threads = WithExplicit(NoEnv).threads
              /\ (Warned("JULIA_IMAGE_THREADS", tc.env_threads) <=> NotForced)
        /\ Malformed(tc.fallbackenv) =>
              /\ tc.threads = WithFallback(NoEnv).threads
              /\ (Warned("JULIA_CPU_THREADS", tc.fallbackenv)
                    <=> (NotForced /\ ~ExplicitApplied /\ WithFallback(NoEnv).threads > 1))

C15_Witness ==
    /\ Called /\ NotForced
    /\ Malformed(tc.env_threads) /\ tc.env_threads.str # <<>>
    /\ WellFormed(tc.fallbackenv)
    /\ Warned("JULIA_IMAGE_THREADS", tc.env_threads)
    /\ ULongIs(strtoul(tc.fallbackenv.str).value, tc.threads)
    /\ tc.threads < WithFallback(NoEnv).threads

\* C16: without an explicit override applied, a well-formed JULIA_CPU_THREADS f
\* gives f where f is below the number returned without it, and that number
\* otherwise.
C16_FallbackLowers ==
    Called /\ ~ExplicitApplied /\ WellFormed(tc.fallbackenv) =>
        IF ULongLess(strtoul(tc.fallbackenv.str).value, WithFallback(NoEnv).threads)
        THEN ULongIs(strtoul(tc.fallbackenv.str).value, tc.threads)
        ELSE tc.threads = WithFallback(NoEnv).threads

C16_Witness ==
    /\ Called /\ NotForced /\ ~ExplicitApplied /\ WellFormed(tc.fallbackenv)
    /\ ~ULongLess(strtoul(tc.fallbackenv.str).value, WithFallback(NoEnv).threads)
    /\ tc.threads = WithFallback(NoEnv).threads
    /\ tc.threads >= 2

\* ------------------------------------------------------------ the archives
\* the names of the members of archive a, in their order
MemberNames(a) == [k \in 1..Len(a.members) |-> a.members[k].name]

\* the prefix and the suffix of the members of the archive written to fname
KindOf(fname) ==
    CASE fname = "unopt_bc_fname" -> <<"_unopt", ".bc">>
      [] fname = "bc_fname" -> <<"_opt", ".bc">>
      [] fname = "obj_fname" -> <<"", ".o">>
      [] OTHER -> <<"", ".s">>

\* C21: every archive written lists threads members of the shards, member k
\* being the output of shard k-1 with this index in its name, then one member
\* metadata, then the member sysimg exactly when z was given, and nothing else.
C21_ArchiveOrder ==
    dump # NoCall =>
        \A n \in 1..Len(dump.archives) :
            LET a == dump.archives[n]
                T == dump.threads
                pre == KindOf(a.fname)[1]
                suf == KindOf(a.fname)[2]
            IN  /\ Len(a.members) = T + 1 + (IF dump.z THEN 1 ELSE 0)
                /\ \A k \in 1..T :
                      MemberNames(a)[k] = <<"text", pre, "#", k - 1, suf>>
                /\ MemberNames(a)[T + 1] = <<"metadata", pre, suf>>
                /\ dump.z <=> (\E k \in 1..Len(a.members) : a.members[k].name[1] = "sysimg")
                /\ dump.z => MemberNames(a)[T + 2] = <<"sysimg", pre, suf>>

C21_Witness ==
    /\ dump # NoCall
    /\ dump.pc = "returned"
    /\ dump.threads >= 2
    /\ dump.emit_metadata
    /\ \E n, m \in 1..Len(dump.archives) :
          /\ Len(dump.archives[n].members) = dump.threads + 2
          /\ Len(dump.archives[m].members) # 0
          /\ dump.archives[n].fname # dump.archives[m].fname

\* ------------------------------------------------------------ the tables
\* the table (syms, ids) written for shard t is the sub-table tab of its
\* partition: as long, the ids strictly ascending, the pairs of id and name
\* those of tab, and the value at position k a definition of the kind in the
\* module of the shard, the one that had the id at position k in table0
TableAligned(t, syms, ids, tab, table0, kind) ==
    /\ Len(syms) = Len(ids)
    /\ Len(ids) = Cardinality(DOMAIN tab)
    /\ \A k, l \in 1..Len(ids) : k < l => ids[k] < ids[l]
    /\ {<<ids[k], NamesIn(t, {syms[k]})>> : k \in 1..Len(ids)}
         = {<<tab[n], {n}>> : n \in DOMAIN tab}
    /\ \A k \in 1..Len(ids) :
          /\ syms[k] \in DOMAIN WM[t].gvs
          /\ WM[t].gvs[syms[k]].kind = kind
          /\ ~isDeclaration(WM[t].gvs[syms[k]])
          /\ ids[k] \in 0..(Len(table0) - 1)
          /\ WM[t].gvs[syms[k]].name = Unit.gvs[table0[ids[k] + 1]].name

\* C22: after construct_vars for a shard, each of its two tables is a pair of
\* arrays of one length that hold the entries of the sub-table of the
\* partition and no other, the flat ids strictly ascending, the symbol at
\* position k being the definition in this shard of the symbol that had the
\* flat id at position k in the table of the module handed in.
C22_TablesAligned ==
    \A t \in DOMAIN wpc :
        threads > 1 /\ Constructed(t) =>
            /\ TableAligned(t, WM[t].jl_fvars, WM[t].jl_fvar_idxs, partitions[t].fvars,
                            M0.jl_fvars, "Function")
            /\ TableAligned(t, WM[t].jl_gvars, WM[t].jl_gvar_idxs, partitions[t].gvars,
                            M0.jl_gvars, "GlobalVariable")

C22_Witness ==
    \E t \in DOMAIN wpc :
        /\ threads > 1 /\ Constructed(t)
        /\ Len(WM[t].jl_fvar_idxs) >= 2
        /\ WM[t].jl_fvar_idxs # <<0, 1>>
        /\ \E u \in DOMAIN wpc : Constructed(u) /\ Len(WM[u].jl_gvar_idxs) + Len(WM[u].jl_fvar_idxs) >= 1 /\ u # t

\* ------------------------------------------------------------ the extraction
\* a table symbol is missing
Missing(e) == ~SymbolsPresent(e)

\* the initializer of a table is no array
MalformedTable(e) == ~SymbolsAreArrays(e)

\* a table lists a global value without name
UnnamedEntry(e) ==
    \E k \in 1..Len(e.jl_fvars.operands \o e.jl_gvars.operands) :
        ~hasName(ExtractValues[(e.jl_fvars.operands \o e.jl_gvars.operands)[k]])

\* C23: get_fvars_gvars never returns (no index maps, partitionModule does not
\* go on) when a table symbol is missing, when the initializer of a table is
\* no array, or when a table lists a global value without name.
C23_ExtractFatal ==
    ext # NoCall /\ (Missing(ext) \/ MalformedTable(ext) \/ UnnamedEntry(ext)) =>
        ext.pc # "returned"

\* ------------------------------------------------------ the order of the steps
\* every definition has a name
AllNamed(gvs) == \A g \in DOMAIN gvs : ~isDeclaration(gvs[g]) => hasName(gvs[g])

\* C24: with more than one thread, partitionModule is entered only with every
\* definition named; the module is serialized once, after partitionModule has
\* returned and before it is released; it is released once, before any worker
\* is started; once released it is freed and stays so, and what a worker
\* deserializes is the buffer, whatever the freed module holds.
C24_StepOrder ==
    [][threads > 1 /\ entry = "add_output" =>
          /\ (pc' # "add_output" => AllNamed(Unit'.gvs))
          /\ (serialized' # <<>> => pc' \in {"serialized", "spawn", "done", "abort"})
          /\ (serialized' # serialized =>
                /\ serialized = <<>> /\ pc = "partitioned" /\ released = 0
                /\ serialized' = serializeModule(M))
          /\ (released' # released =>
                /\ released = 0 /\ released' = 1
                /\ serialized # <<>> /\ spawned = 0)
          /\ (released' >= 1 => M' = module_released(M))
          /\ (spawned' > 0 \/ \E t \in DOMAIN wpc : wpc'[t] # "idle") => released' = 1
          /\ \A t \in DOMAIN wpc :
                wpc'[t] = "deserialized" =>
                    /\ WM'[t] = getLazyBitcodeModule(serialized')
                    /\ WM'[t].gvs # <<>>]_vars

C24_Witness ==
    /\ threads = 2 /\ entry = "add_output"
    /\ released = 1
    /\ M = module_released(M)
    /\ wpc[0] = "deserialized" /\ wpc[1] = "started"
    /\ \E g \in DOMAIN M0.gvs : ~isDeclaration(M0.gvs[g]) /\ ~hasName(M0.gvs[g])

\* ------------------------------------------------------ the phases of a worker
\* the phase that a timer of a shard belongs to
PhaseOf(timer) ==
    CASE timer = "deserialize" -> "Deserializing"
      [] timer = "materialize" -> "Materializing"
      [] timer = "construct" -> "ConstructingTables"
      [] timer = "optimize" -> "Optimizing"
      [] OTHER -> "Emitting"

PhaseRank(phase) ==
    CASE phase = "Deserializing" -> 1
      [] phase = "Materializing" -> 2
      [] phase = "ConstructingTables" -> 3
      [] phase = "Optimizing" -> 4
      [] OTHER -> 5

\* the place of a timer in add_output and add_output_impl
TimerRank(timer) ==
    CASE timer = "deserialize" -> 1
      [] timer = "materialize" -> 2
      [] timer = "construct" -> 3
      [] timer = "unopt" -> 4
      [] timer = "optimize" -> 5
      [] timer = "opt" -> 6
      [] timer = "obj" -> 7
      [] OTHER -> 8

\* worker t has stored its output
Stored(t) == outputs[t] # NoOutput

\* C25 as stated: the phases of a worker follow one another in the order
\* Deserializing, Materializing, ConstructingTables, Optimizing, Emitting, never
\* backwards, and the output is stored only when the worker is done.
C25_PhasesInOrder ==
    impl # NoCall =>
        \A t \in DOMAIN wpc :
            /\ \A k, l \in 1..Len(timers[t]) :
                  k < l => PhaseRank(PhaseOf(timers[t][k])) <= PhaseRank(PhaseOf(timers[t][l]))
            /\ Stored(t) <=> wpc[t] = "done"

\* the outputs that are asked for after the optimizer
AfterOptimizer == impl.opt \/ impl.obj \/ impl.asm_

\* the timers that a worker runs for the outputs asked for, in their order
TimersAskedFor ==
    <<"deserialize", "materialize", "construct">>
    \o (IF impl.unopt THEN <<"unopt">> ELSE <<>>)
    \o (IF AfterOptimizer THEN <<"optimize">> ELSE <<>>)
    \o (IF impl.opt THEN <<"opt">> ELSE <<>>)
    \o (IF impl.obj THEN <<"obj">> ELSE <<>>)
    \o (IF impl.asm_ THEN <<"asm_">> ELSE <<>>)

\* C25, amended: the steps of a worker follow one another in the order
\* Deserializing, Materializing, ConstructingTables, Emitting of the
\* pre-optimization form (if asked for), Optimizing (if anything else is asked
\* for), Emitting of the optimized form, the object code and the assembly (as
\* asked for); each is run at most once, never backwards; the output is stored
\* only when the worker is done, after every step asked for.
C25_StepsInOrder ==
    impl # NoCall =>
        \A t \in DOMAIN wpc :
            /\ \A k, l \in 1..Len(timers[t]) :
                  k < l => TimerRank(timers[t][k]) < TimerRank(timers[t][l])
            /\ \E n \in 0..Len(TimersAskedFor) : timers[t] = SubSeq(TimersAskedFor, 1, n)
            /\ Stored(t) <=> wpc[t] = "done"
            /\ Stored(t) => timers[t] = TimersAskedFor

C25_Witness ==
    /\ impl # NoCall
    /\ impl.unopt /\ impl.obj
    /\ pc = "done"
    /\ \A t \in DOMAIN wpc :
          /\ Stored(t)
          /\ \E k, l \in 1..Len(timers[t]) :
                k < l /\ timers[t][k] = "unopt" /\ timers[t][l] = "optimize"

\* ------------------------------------------------------ materializePreserved
\* the functions and variables of the serialized module that are definitions
\* without local linkage
NonLocalDefinitions ==
    {g \in DOMAIN Unit.gvs :
        /\ Unit.gvs[g].kind \in {"Function", "GlobalVariable"}
        /\ ~isDeclaration(Unit.gvs[g])
        /\ ~hasLocalLinkage(Unit.gvs[g])}

\* g is, in the module of worker t, a declaration without body or
\* initializer, external, hidden and dso_local, under its name
StrippedIn(t, g) ==
    /\ g \in DOMAIN WM[t].gvs
    /\ LET G == WM[t].gvs[g]
       IN  /\ G.name = Unit.gvs[g].name /\ G.kind = Unit.gvs[g].kind
           /\ isDeclaration(G) /\ ~G.lazy
           /\ G.insts = 0 /\ G.bbs = 0 /\ G.operands = {} /\ G.uses = {}
           /\ G.linkage = "external" /\ G.visibility = "hidden" /\ G.dsolocal

\* C26: after materializePreserved for a shard, every function and variable
\* that was a definition without local linkage and is not in the preserved set
\* of the partition is a declaration without body or initializer, external,
\* hidden and dso_local; every value of the preserved set is a definition with
\* the body it had.
C26_StrippedOrPreserved ==
    \A t \in DOMAIN wpc :
        threads > 1 /\ Materialized(t) =>
            LET keep == Preserve(Unit.gvs, partitions[t])
            IN  /\ \A g \in NonLocalDefinitions \ keep : StrippedIn(t, g)
                /\ \A g \in keep :
                      /\ g \in DOMAIN WM[t].gvs
                      /\ ~isDeclaration(WM[t].gvs[g]) /\ ~WM[t].gvs[g].lazy
                      /\ WM[t].gvs[g].name = Unit.gvs[g].name
                      /\ SameBody(t, g)

C26_Witness ==
    \E t \in DOMAIN wpc :
        /\ threads > 1 /\ wpc[t] = "preserved"
        /\ \E g \in NonLocalDefinitions \ Preserve(Unit.gvs, partitions[t]) :
              /\ Unit.gvs[g].kind = "Function"
              /\ Unit.gvs[g].uses # {}
              /\ StrippedIn(t, g)
        /\ \E g \in NonLocalDefinitions \ Preserve(Unit.gvs, partitions[t]) :
              Unit.gvs[g].kind = "GlobalVariable" /\ StrippedIn(t, g)
        /\ Preserve(Unit.gvs, partitions[t]) # {}

\* the aliases of the module of worker t that line 1180-1183 do not skip
AliasesToGo(t) ==
    {g \in DOMAIN WM[t].gvs \cap DOMAIN Unit.gvs :
        /\ Unit.gvs[g].kind = "GlobalAlias"
        /\ g \notin Preserve(Unit.gvs, partitions[t])
        /\ ~hasLocalLinkage(Unit.gvs[g])}

\* the alias GA of worker t points at a new definition of its shape
Redirected(t, GA) ==
    /\ GA \in DOMAIN WM[t].gvs
    /\ \E PH \in (DOMAIN WM[t].gvs) \ DOMAIN Unit.gvs :
          /\ WM[t].gvs[GA].operands = {PH}
          /\ ~isDeclaration(WM[t].gvs[PH])
          /\ WM[t].gvs[PH].kind =
                 (IF WM[t].gvs[GA].fnty THEN "Function" ELSE "GlobalVariable")

\* no alias of the module of worker t points at a declaration
NoAliasToDeclaration(t) ==
    \A g \in DOMAIN WM[t].gvs :
        WM[t].gvs[g].kind = "GlobalAlias" =>
            \A o \in WM[t].gvs[g].operands : ~isDeclaration(WM[t].gvs[o])

\* C27: when materializeAll is forced (line 1198) every alias that is neither
\* preserved nor local, of function type or not, points at a new placeholder
\* definition of its shape, and no alias points at a declaration; the aliases
\* are still there until materializeAll has run, and after the last loop they
\* are gone and the placeholders are declarations.
C27_AliasesRedirected ==
    \A t \in DOMAIN wpc :
        threads > 1 =>
            /\ wpc[t] \in {"stripped", "materialized"} =>
                  /\ \A GA \in AliasesToGo(t) : Redirected(t, GA)
                  /\ NoAliasToDeclaration(t)
            /\ wpc[t] = "preserved" =>
                  /\ AliasesToGo(t) = {}
                  /\ \A PH \in (DOMAIN WM[t].gvs) \ DOMAIN Unit.gvs :
                        isDeclaration(WM[t].gvs[PH])

\* the same for the aliases of function type alone, where no forced-inline
\* function is defined
C27_FunctionAliasesRedirected ==
    \A t \in DOMAIN wpc :
        threads > 1 /\ (\A g \in DOMAIN Unit.gvs : canPartition(Unit.gvs[g])) =>
            /\ wpc[t] \in {"stripped", "materialized"} =>
                  /\ \A GA \in AliasesToGo(t) :
                        WM[t].gvs[GA].fnty => Redirected(t, GA)
                  /\ \A g \in DOMAIN WM[t].gvs :
                        WM[t].gvs[g].kind = "GlobalAlias" /\ WM[t].gvs[g].fnty =>
                            \A o \in WM[t].gvs[g].operands : ~isDeclaration(WM[t].gvs[o])
            /\ wpc[t] = "preserved" =>
                  /\ AliasesToGo(t) = {}
                  /\ \A PH \in (DOMAIN WM[t].gvs) \ DOMAIN Unit.gvs :
                        isDeclaration(WM[t].gvs[PH])

\* ------------------------------------------------- the order of assignment
\* the root of node x, by its parent pointers
RECURSIVE RootOf(_, _)
RootOf(ns, x) == IF ns[x].parent = x THEN x ELSE RootOf(ns, ns[x].parent)

\* the weight partitionModule gives the global value g when it makes its node
OwnWeight(gvs, g) ==
    IF gvs[g].kind = "Function" THEN getFunctionWeight(gvs[g]).weight ELSE 1

RECURSIVE SumOwnWeight(_, _)
SumOwnWeight(gvs, S) ==
    IF S = {} THEN 0
    ELSE LET g == CHOOSE x \in S : TRUE
         IN  OwnWeight(gvs, g) + SumOwnWeight(gvs, S \ {g})

\* the global values of the connected component of root r
Component(ns, r) == {ns[n].GV : n \in {m \in DOMAIN ns : RootOf(ns, m) = r}}

\* the roots no partition has taken yet
OpenRoots(ns) == {r \in DOMAIN ns : ns[r].parent = r /\ ns[r].weight # 0}

LightestWeight(parts) == SetMin({parts[k].weight : k \in DOMAIN parts})

\* C28: every iteration of the assignment loop that assigns a component takes
\* a component whose accumulated weight is the greatest of those still open
\* (so components go in order of non-increasing weight) and adds that whole
\* weight to one partition whose weight was minimal among all partitions; the
\* node at hand enters the partition of its root, and no other weight changes.
C28_HeaviestToLightest ==
    [][pc = "assign" /\ idx' = idx + 1 =>
          LET n == idxs[idx]
              root == RootOf(nodes, n)
              w == nodes[root].weight
              grown == {k \in DOMAIN partitions :
                           partitions'[k].weight # partitions[k].weight}
              rname == M.gvs[nodes[root].GV].name
              nname == M.gvs[nodes[n].GV].name
          IN  IF root \in OpenRoots(nodes)
              THEN /\ w = SumOwnWeight(M.gvs, Component(nodes, root))
                   /\ \A r \in OpenRoots(nodes) : nodes[r].weight <= w
                   /\ \E k \in DOMAIN partitions :
                         /\ grown = {k}
                         /\ partitions[k].weight = LightestWeight(partitions)
                         /\ partitions'[k].weight = partitions[k].weight + w
                         /\ rname \in DOMAIN partitions'[k].globals
                         /\ nname \in DOMAIN partitions'[k].globals
                   /\ root \notin OpenRoots(nodes')
              ELSE /\ grown = {}
                   /\ \E k \in DOMAIN partitions :
                         /\ rname \in DOMAIN partitions[k].globals
                         /\ nname \in DOMAIN partitions'[k].globals]_vars

\* three components or more have gone to two partitions, so that one holds
\* several, and the weights of the two differ
C28_Witness ==
    /\ entry = "partitionModule" /\ pc = "partitioned" /\ threads = 2
    /\ Cardinality({r \in DOMAIN nodes : nodes[r].parent = r}) >= 3
    /\ partitions[0].weight # partitions[1].weight
    /\ partitions[0].weight > 0 /\ partitions[1].weight > 0
    /\ \E k \in DOMAIN partitions : Cardinality(DOMAIN partitions[k].globals) >= 2

\* --------------------------------------------- what cannot be partitioned
\* the definitions of the module that canPartition refuses
Unpartitionable(gvs) ==
    {g \in DOMAIN gvs : ~isDeclaration(gvs[g]) /\ ~canPartition(gvs[g])}

\* g is in no partition, in no table of a partition, and has no node
OutsidePartitions(g) ==
    /\ \A k \in DOMAIN partitions :
          /\ Unit.gvs[g].name \notin DOMAIN partitions[k].globals
          /\ Unit.gvs[g].name \notin DOMAIN partitions[k].fvars
          /\ Unit.gvs[g].name \notin DOMAIN partitions[k].gvars
    /\ \A n \in DOMAIN nodes : nodes[n].GV # g

\* worker t has g as a definition of local linkage, with the body it had
KeptLocal(t, g) ==
    /\ g \in DOMAIN WM[t].gvs
    /\ ~isDeclaration(WM[t].gvs[g])
    /\ hasLocalLinkage(WM[t].gvs[g])
    /\ SameBody(t, g)

\* C29: a definition that cannot be partitioned is in the symbol set and the
\* tables of no partition and has no node to be merged, and after
\* materializePreserved every shard holds it as a definition of local linkage,
\* never as an external declaration.
C29_InlineKeptLocal ==
    threads > 1 /\ pc \notin {"add_output", "partitionModule"} =>
        \A g \in Unpartitionable(Unit.gvs) :
            /\ OutsidePartitions(g)
            /\ \A t \in DOMAIN wpc : Materialized(t) => KeptLocal(t, g)

\* the same for the definitions that cannot be partitioned and come with
\* local linkage
C29_LocalInlineKept ==
    threads > 1 /\ pc \notin {"add_output", "partitionModule"} =>
        \A g \in Unpartitionable(Unit.gvs) :
            /\ OutsidePartitions(g)
            /\ \A t \in DOMAIN wpc :
                  Materialized(t) /\ hasLocalLinkage(Unit.gvs[g]) => KeptLocal(t, g)

\* ------------------------------------------------------- the synthetic names
\* the definitions the module handed in has without a name
UnnamedDefinitions ==
    {g \in DOMAIN M0.gvs : ~isDeclaration(M0.gvs[g]) /\ ~hasName(M0.gvs[g])}

\* the number of definitions without name that M.global_values() lists before g
RenamedBefore(g) == Cardinality({h \in UnnamedDefinitions : h < g})

\* C30: with more than one thread, from the call of partitionModule on, every
\* definition has a name: a definition that had none has "jl_ext_" followed by
\* the number of definitions renamed before it (a counter from 0 that goes up
\* by one with each renaming), the names of the definitions are pairwise
\* distinct, and every value that had a name, and every declaration, has the
\* name it had.
C30_SyntheticNames ==
    threads > 1 /\ pc # "add_output" =>
        /\ DOMAIN Unit.gvs = DOMAIN M0.gvs
        /\ \A g \in DOMAIN Unit.gvs :
              /\ ~isDeclaration(M0.gvs[g]) => hasName(Unit.gvs[g])
              /\ g \in UnnamedDefinitions =>
                    Unit.gvs[g].name = <<"jl_ext_", RenamedBefore(g)>>
              /\ g \notin UnnamedDefinitions => Unit.gvs[g].name = M0.gvs[g].name
        /\ \A g, h \in DOMAIN Unit.gvs :
              g # h /\ ~isDeclaration(M0.gvs[g]) /\ ~isDeclaration(M0.gvs[h]) =>
                  Unit.gvs[g].name # Unit.gvs[h].name

\* partitionModule is about to be called on a module where two definitions
\* have been named jl_ext_0 and jl_ext_1
C30_Witness ==
    /\ threads > 1 /\ pc = "partitionModule" /\ entry = "add_output"
    /\ Cardinality(UnnamedDefinitions) >= 2
    /\ \E g, h \in UnnamedDefinitions :
          /\ M.gvs[g].name = <<"jl_ext_", 0>>
          /\ M.gvs[h].name = <<"jl_ext_", 1>>

\* ----------------------------------------------------- the stamp of a shard
\* the module Mod carries the suffix and the file of shard t
Stamped(Mod, t) == Mod.suffix = <<"_", t>> /\ Mod.difile = <<"julia#", t>>

\* C31: with more than one thread, the module of worker i carries
\* julia.mv.suffix "_i" and the file "julia#i" from the end of construct_vars
\* on, the module that was compiled into outputs[i] carries them too, and no two
\* workers carry the same suffix or the same file.
C31_ShardStamped ==
    threads > 1 =>
        /\ \A t \in DOMAIN wpc :
              /\ Constructed(t) => Stamped(WM[t], t)
              /\ outputs[t].compiled => Stamped(outputs[t].module, t)
        /\ \A t, u \in DOMAIN wpc :
              t # u /\ Constructed(t) /\ Constructed(u) =>
                  /\ WM[t].suffix # WM[u].suffix
                  /\ WM[t].difile # WM[u].difile

\* two shards have been compiled, each with its stamp
C31_Witness ==
    /\ threads > 1
    /\ \E t, u \in DOMAIN wpc :
          /\ t # u
          /\ outputs[t].compiled /\ outputs[u].compiled
          /\ Stamped(outputs[t].module, t) /\ Stamped(outputs[u].module, u)

\* ------------------------------------------------------------- node weights
\* the number of bits set in d
RECURSIVE BitsSet(_)
BitsSet(d) == IF d = 0 THEN 0 ELSE (d % 2) + BitsSet(d \div 2)

RECURSIVE BitsOfMask(_)
BitsOfMask(hex) == IF hex = <<>> THEN 0 ELSE BitsSet(Head(hex)) + BitsOfMask(Tail(hex))

\* the weight the claim gives the global value G
StatedWeight(G) ==
    IF G.kind = "Function"
    THEN (1 + G.insts + G.bbs) * (IF G.mvclones THEN BitsOfMask(G.clones) + 1 ELSE 1)
    ELSE 1

\* C32: when the nodes have been made and none has been merged, the weight of
\* the node of a function is (1 + instructions + basic blocks) times (set bits
\* of the hex mask julia.mv.clones + 1), times 1 without the attribute, the
\* weight of every other node is 1, and every weight is at least 1.
C32_NodeWeight ==
    entry = "partitionModule" /\ pc = "merge" /\ i = 0 =>
        \A n \in DOMAIN nodes :
            /\ nodes[n].weight = StatedWeight(M.gvs[nodes[n].GV])
            /\ nodes[n].weight >= 1

\* a function with a mask of several set bits and a variable have their nodes
C32_Witness ==
    /\ entry = "partitionModule" /\ pc = "merge" /\ i = 0
    /\ \E n, m \in DOMAIN nodes :
          /\ M.gvs[nodes[n].GV].kind = "Function"
          /\ M.gvs[nodes[n].GV].mvclones
          /\ M.gvs[nodes[n].GV].clones = <<3, 8>>
          /\ M.gvs[nodes[n].GV].insts = 2
          /\ nodes[n].weight = 16
          /\ M.gvs[nodes[m].GV].kind = "GlobalVariable"
          /\ nodes[m].weight = 1

\* ------------------------------------------------ a kind the target lacks
\* the error message of worker t about the kind
Diagnosed(t, kind) ==
    \E k \in 1..Len(impl.errors[t]) :
        impl.errors[t][k] =
            (IF kind = "obj"
             THEN "ERROR: target does not support generation of object files"
             ELSE "ERROR: target does not support generation of assembly files")

\* C33: a worker that has printed the error of a kind the target cannot emit
\* has not stopped the process; its stored output has no bytes of that kind,
\* and has the bytes of every other kind asked for: of a kind asked for, the
\* bytes are missing exactly if its error was printed.
C33_UnsupportedKindSkipped ==
    \A t \in DOMAIN wpc :
        /\ impl.errors[t] # <<>> => wpc[t] # "failed"
        /\ Diagnosed(t, "obj") => impl.obj /\ impl.out[t].obj = EmptyBuffer
        /\ Diagnosed(t, "asm_") => impl.asm_ /\ impl.out[t].asm_ = EmptyBuffer
        /\ wpc[t] = "done" =>
              /\ outputs[t].compiled
              /\ impl.unopt => outputs[t].buffers.unopt # EmptyBuffer
              /\ impl.opt => outputs[t].buffers.opt # EmptyBuffer
              /\ impl.obj =>
                    (outputs[t].buffers.obj = EmptyBuffer <=> Diagnosed(t, "obj"))
              /\ impl.asm_ =>
                    (outputs[t].buffers.asm_ = EmptyBuffer <=> Diagnosed(t, "asm_"))

\* a worker whose target emits no object file has stored its bitcode and its
\* assembly, and add_output has returned
C33_Witness ==
    /\ pc = "done"
    /\ \E t \in DOMAIN wpc :
          /\ wpc[t] = "done"
          /\ Diagnosed(t, "obj") /\ ~Diagnosed(t, "asm_")
          /\ outputs[t].buffers.obj = EmptyBuffer
          /\ outputs[t].buffers.opt # EmptyBuffer
          /\ outputs[t].buffers.asm_ # EmptyBuffer

\* ------------------------------------------------ the partition invariants
\* a definition that is in no partition holds a value of a partition as a
\* constant operand
UnassignedDependency ==
    \E u, g \in DOMAIN M.gvs :
        /\ ~isDeclaration(M.gvs[u])
        /\ g \in M.gvs[u].operands
        /\ Owners(partitions, M.gvs[u].name) = {}
        /\ Owners(partitions, M.gvs[g].name) # {}

\* a flat id of jl_fvars or jl_gvars is in the tables of two partitions
DuplicateFlatId ==
    \/ \E id \in 0..(ALen(fvars) - 1) : Cardinality(FvarOwners(partitions, id)) > 1
    \/ \E id \in 0..(ALen(gvars) - 1) : Cardinality(GvarOwners(partitions, id)) > 1

\* C34: partitionModule never returns partitions that leave a dependency
\* unassigned or hold a flat id twice: it stops the process instead.
C34_ViolationAborts ==
    entry = "partitionModule" /\ pc = "partitioned" =>
        ~UnassignedDependency /\ ~DuplicateFlatId

\* the same in a build with assertions
C34_AssertionsAbort ==
    entry = "partitionModule" /\ pc = "partitioned" /\ Assertions =>
        ~UnassignedDependency /\ ~DuplicateFlatId

\* --------------------------------------------------- the weight of a shard
\* the global values whose names partition P holds
Members(P) == {g \in DOMAIN M.gvs : M.gvs[g].name \in DOMAIN P.globals}

RECURSIVE SumShardWeights(_, _)
SumShardWeights(parts, S) ==
    IF S = {} THEN 0
    ELSE LET k == CHOOSE x \in S : TRUE
         IN  parts[k].weight + SumShardWeights(parts, S \ {k})

\* C35: when partitionModule has returned, the weight of every partition is
\* the sum of the weights of the global values it holds, each counted once, and
\* the weights of the partitions add up to the weight of all definitions that
\* can be partitioned.
C35_WeightsAddUp ==
    entry = "partitionModule" /\ pc = "partitioned" =>
        /\ \A k \in DOMAIN partitions :
              partitions[k].weight = SumOwnWeight(M.gvs, Members(partitions[k]))
        /\ SumShardWeights(partitions, DOMAIN partitions)
              = SumOwnWeight(M.gvs, Partitionable(M.gvs))

\* a partition holds a component of several global values with the sum of
\* their weights, next to a second partition that is not empty
C35_Witness ==
    /\ entry = "partitionModule" /\ pc = "partitioned" /\ threads = 2
    /\ partitions[0].weight > 0 /\ partitions[1].weight > 0
    /\ \E r \in DOMAIN nodes :
          nodes[r].parent = r /\ Cardinality(Component(nodes, r)) >= 2
    /\ \E k \in DOMAIN partitions :
          partitions[k].weight = SumOwnWeight(M.gvs, Members(partitions[k]))
          /\ Cardinality(Members(partitions[k])) >= 2

\* ------------------------------------------------------- roots come first
\* C36: in every iteration of the assignment loop, a root that no partition
\* has taken yet weighs more than every other node of its component, and a
\* node that is not the root of its component finds its root taken (weight 0,
\* its name in a partition) and its own weight not 0: the assertions of lines
\* 882 and 900 hold.
C36_RootsFirst ==
    [][pc = "assign" /\ idx' = idx + 1 =>
          LET n == idxs[idx]
              root == RootOf(nodes, n)
          IN  /\ \A r \in OpenRoots(nodes) :
                    \A m \in DOMAIN nodes :
                        m # r /\ RootOf(nodes, m) = r =>
                            nodes[r].weight > nodes[m].weight
              /\ n # root =>
                    /\ nodes[root].weight = 0
                    /\ Owners(partitions, M.gvs[nodes[root].GV].name) # {}
                    /\ nodes[n].weight # 0
              /\ 882 \notin failed' /\ 900 \notin failed']_vars

\* the loop has passed a node that is not a root and put it into the
\* partition of its root
C36_Witness ==
    /\ entry = "partitionModule" /\ pc = "assign" /\ idx > 0
    /\ failed = {}
    /\ \E k \in 0..(idx - 1) :
          LET n == idxs[k]
              root == RootOf(nodes, n)
          IN  /\ n # root
              /\ nodes[n].weight = 0
              /\ Owners(partitions, M.gvs[nodes[n].GV].name)
                     = Owners(partitions, M.gvs[nodes[root].GV].name)
              /\ Owners(partitions, M.gvs[nodes[n].GV].name) # {}

\* ------------------------------------------------ the slots an archive reads
\* the field of AOTOutputs that goes into the archive written to fname
FieldOf(fname) ==
    CASE fname = "unopt_bc_fname" -> "unopt"
      [] fname = "bc_fname" -> "opt"
      [] fname = "obj_fname" -> "obj"
      [] OTHER -> "asm_"

\* the buffer of the member of archive a whose name starts with first
BufferOf(a, first) ==
    {a.members[k].buffer : k \in {j \in 1..Len(a.members) : a.members[j].name[1] = first}}

\* every slot that the archives written so far have read was filled by a compile
SlotsFilled ==
    /\ dump.pc # "abort"
    /\ dump.archives # <<>> =>
          /\ ALen(dump.data_outputs) = dump.threads
          /\ ALen(dump.metadata_outputs) = 1
          /\ dump.z => ALen(dump.sysimg_outputs) = 1
          /\ \A k \in 1..Len(dump.archives) :
                LET a == dump.archives[k]
                IN  /\ BufferOf(a, "metadata")
                          = {dump.metadata_outputs[0][FieldOf(a.fname)]}
                    /\ BufferOf(a, "text")
                          = {dump.data_outputs[t][FieldOf(a.fname)] :
                                t \in 0..(dump.threads - 1)}
                    /\ dump.z => BufferOf(a, "sysimg")
                                    = {dump.sysimg_outputs[0][FieldOf(a.fname)]}

\* C37: in jl_dump_native_impl, whatever the parameters, an archive reads only
\* slots that a finished compile has filled: the slots of the threads shards
\* of the text, slot 0 of the metadata and, with z, slot 0 of the system image
\* data; no read ends the process.
C37_SlotsFilled == entry = "jl_dump_native_impl" => SlotsFilled

\* the same where params->emit_metadata is set
C37_SlotsFilledWithMetadata ==
    entry = "jl_dump_native_impl" /\ dump.emit_metadata => SlotsFilled

\* ------------------------------------------- before and after the optimizer
\* the timer has run for worker t
HasRun(t, timer) == \E k \in 1..Len(timers[t]) : timers[t][k] = timer

\* C38: in the compile of a shard the bytes of unopt are written from the
\* module the optimizer has not touched, the bytes of opt, obj and asm_ from
\* the module after the optimizer has run, and when unopt alone is asked for
\* the optimizer does not run at all.
C38_AroundOptimizer ==
    \A t \in DOMAIN wpc :
        /\ impl.out[t].unopt \in {EmptyBuffer, <<"unopt", "unoptimized">>}
        /\ impl.out[t].opt \in {EmptyBuffer, <<"opt", "optimized">>}
        /\ impl.out[t].obj \in {EmptyBuffer, <<"obj", "optimized">>}
        /\ impl.out[t].asm_ \in {EmptyBuffer, <<"asm_", "optimized">>}
        /\ HasRun(t, "unopt") /\ impl.optimized[t] =>
              impl.out[t].unopt = <<"unopt", "unoptimized">>
        /\ HasRun(t, "opt") \/ HasRun(t, "obj") \/ HasRun(t, "asm_") =>
              impl.optimized[t] /\ HasRun(t, "optimize")
        /\ ~impl.opt /\ ~impl.obj /\ ~impl.asm_ =>
              ~impl.optimized[t] /\ ~HasRun(t, "optimize")
        /\ wpc[t] = "done" => outputs[t].buffers = impl.out[t]

\* a worker has stored unopt bytes of the untouched module next to opt and
\* asm_ bytes of the optimized one
C38_Witness ==
    \E t \in DOMAIN wpc :
        /\ wpc[t] = "done"
        /\ impl.optimized[t]
        /\ outputs[t].buffers.unopt = <<"unopt", "unoptimized">>
        /\ outputs[t].buffers.opt = <<"opt", "optimized">>
        /\ outputs[t].buffers.asm_ = <<"asm_", "optimized">>

\* ------------------------------------------------------ module_released
\* the module record is what module_released leaves of a module
Freed(Mod) == Mod.suffix = <<"freed">>

\* C39: on both paths of add_output module_released is called exactly once:
\* never twice, and once by the return. It is called when the module has been
\* read for the last time: with one thread when outputs[0] has been compiled,
\* with more when the buffer has been serialized from the module; afterwards
\* the freed module is not changed again, and neither the buffer nor the module
\* of a worker nor a stored output holds anything of it.
C39_ReleasedOnce ==
    [][entry = "add_output" =>
          /\ released' \in {released, released + 1} /\ released' <= 1
          /\ (pc' = "done" => released' = 1)
          /\ (released' # released =>
                /\ IF threads = 1
                   THEN outputs[0] = add_output_impl(M) /\ serialized = <<>>
                   ELSE serialized = serializeModule(M)
                /\ ~Freed(M) /\ Freed(M'))
          /\ (released = 1 => M' = M /\ serialized' = serialized)
          /\ (serialized' # <<>> => ~Freed(serialized'.bitcode))
          /\ \A t \in DOMAIN wpc :
                /\ (outputs'[t].compiled => ~Freed(outputs'[t].module))
                /\ (wpc'[t] \notin {"idle", "started", "failed"} => ~Freed(WM'[t]))]_vars

\* add_output has returned after one call of module_released, on the path of
\* one thread with its output compiled from the module as handed in
C39_Witness ==
    /\ entry = "add_output" /\ pc = "done" /\ released = 1 /\ Freed(M)
    /\ threads = 1
    /\ outputs[0].compiled /\ outputs[0].module = M0

\* the same on the path of several threads
C39_WitnessThreads ==
    /\ entry = "add_output" /\ pc = "done" /\ released = 1 /\ Freed(M)
    /\ threads > 1
    /\ \A t \in DOMAIN wpc : outputs[t].compiled /\ ~Freed(outputs[t].module)

NoAssertionFails == failed = {}

====
